---------------------------- MODULE Spec2Model ----------------------------
(***************************************************************************)
(* A model of the write-and-recover layer of the Things3 MCP server:       *)
(*   - URLSchemeHandler (src/src/utils/url-scheme.ts): date normalisation, *)
(*     URL / structured-document encoding, the activation channel;         *)
(*   - TodosTools (src/src/tools/todos.ts): the to-do operations and the   *)
(*     creation recovery protocol of createTodo;                           *)
(*   - the listTodos script template (src/unnamed/part_000).               *)
(*                                                                         *)
(* Three specifications share the variables:                               *)
(*   SpecDate   formatDateForUrl applied to bounded inputs, clocks, zones  *)
(*   SpecEncode the update encoders applied to bounded update intents      *)
(*   Spec       one invocation of a TodosTools operation against a host    *)
(***************************************************************************)
EXTENDS Integers, Sequences, FiniteSets, TLC

VARIABLES
    \* ---- date normaliser (SpecDate)
    dPc,        \* "idle" | "formatted" | "create" | "update" | "pair"
    dIn,        \* the isoDate argument (a DateInput)
    dNow,       \* the system clock, hours since the epoch (UTC)
    dTz,        \* the local zone's offset from UTC, hours
    dOut,       \* what formatDateForUrl returned
    dKeys,      \* keys of the create URL / update document built from dOut
    dIn2,       \* dIn with another time of day
    dOut2,      \* what formatDateForUrl returned for dIn2
    \* ---- update encoders (SpecEncode)
    ePc,        \* "idle" | "done"
    eOp,        \* which encoder ran
    eIntent,    \* the update intent handed to the encoder
    eToken,     \* process.env.THINGS3_AUTH_TOKEN
    eDoc,       \* the attributes objects of the encoded document (SpecEncode),
                \* the URL that was built (SpecAuth)
    \* ---- TodosTools operations (Spec)
    host,       \* the host's to-dos, in the host's listing order
    op,         \* the operation being invoked
    pc,         \* its position
    params,     \* its parameters
    trace,      \* the channel events of this invocation, in order
    result,     \* its outcome
    pending,    \* activations accepted by the host and not yet applied
    seen,       \* what the two recovery searches saw (history)
    \* ---- batch scripts of the template library (SpecBatch)
    bPc,        \* "run" | "returned"
    bOp,        \* the template that generated the script
    bHost0,     \* the host's items when the script starts
    bHost,      \* the host's items: id -> [kind, status, tags, list, when, due]
    bIds,       \* the ids (names, for deleteTags) the script was generated for
    bArg,       \* the template's other arguments
    bIdx,       \* the item the script is at
    bLog,       \* the items attempted so far, with their outcomes
    bWrites,    \* the values written to "tag names", in order
    bCount,     \* the script's counter
    bResult,    \* what the caller of the script returns
    \* ---- one call of a channel (SpecChannel)
    cChan,      \* "execute" (URLSchemeHandler) | "queryDatabase"
    cProc,      \* the spawned process: "running" | "killed" | "closed"
    cCode,      \* the exit code the process ends with, if it ends
    cStdout,    \* what the process writes to stdout
    cTimer,     \* the timeout timer: "none" | "armed" | "fired" | "cleared"
    cCall,      \* the call's promise: "pending" | "delay" | "resolved" | "rejected"
    cValue,     \* what the promise settled with
    cEvents     \* the events that happened, in order

dateVars == <<dPc, dIn, dNow, dTz, dOut, dKeys, dIn2, dOut2>>
encVars  == <<ePc, eOp, eIntent, eToken, eDoc>>
opVars   == <<host, op, pc, params, trace, result, pending, seen>>
batchVars == <<bPc, bOp, bHost0, bHost, bIds, bArg, bIdx, bLog, bWrites, bCount, bResult>>
chanVars == <<cChan, cProc, cCode, cStdout, cTimer, cCall, cValue, cEvents>>
vars     == <<dateVars, encVars, opVars, batchVars, chanVars>>

-----------------------------------------------------------------------------
(* JavaScript values: every value is a record [t, v]; t is its type.        *)

Undef      == [t |-> "undefined", v |-> ""]
Null       == [t |-> "null", v |-> ""]
Str(s)     == [t |-> "string", v |-> s]
Bool(b)    == [t |-> "boolean", v |-> b]
Arr(items) == [t |-> "array", v |-> items]
\* A string that Date can parse.  form: "date" is YYYY-MM-DD (read as UTC
\* midnight), "utc" is YYYY-MM-DDTHH:00:00Z, "local" is YYYY-MM-DDTHH:00:00
\* (read in the local zone).
DateStr(form, y, m, d, h) ==
    [t |-> "datestring", v |-> [form |-> form, y |-> y, m |-> m, d |-> d, h |-> h]]

\* A text whose characters the model reads (a title, a note)
Text(chars) == [t |-> "text", v |-> chars]
Num(n)      == [t |-> "number", v |-> n]

\* !value
Falsy(x) == x \in {Undef, Null, Str(""), Text(<<>>), Num(0), Bool(FALSE)}

\* obj[key], undefined when the object has no such key
Get(obj, key) == IF key \in DOMAIN obj THEN obj[key] ELSE Undef

-----------------------------------------------------------------------------
(* Calendar arithmetic of the JavaScript Date object, in whole hours.       *)

\* Day number (days since 1970-01-01) of the civil date y-m-d; d may overflow
\* the month, as in Date.prototype.setDate (ECMAScript MakeDay).
DaysFromCivil(y, m, d) ==
    LET yy  == IF m <= 2 THEN y - 1 ELSE y
        era == yy \div 400
        yoe == yy - era * 400
        mp  == IF m > 2 THEN m - 3 ELSE m + 9
        doy == (153 * mp + 2) \div 5 + d - 1
        doe == yoe * 365 + yoe \div 4 - yoe \div 100 + doy
    IN  era * 146097 + doe - 719468

\* The civil date of a day number (ECMAScript YearFromTime, MonthFromTime,
\* DateFromTime); month is 1..12 here.  Each step hands its results on as
\* arguments: era, day of era, year of era, day of year, shifted month.
CivilFromMonth(y0, m, d) ==
    [y |-> y0 + (IF m <= 2 THEN 1 ELSE 0), m |-> m, d |-> d]

CivilFromMp(y0, doy, mp) ==
    CivilFromMonth(y0, IF mp < 10 THEN mp + 3 ELSE mp - 9,
                   doy - (153 * mp + 2) \div 5 + 1)

CivilFromDoy(y0, doy) == CivilFromMp(y0, doy, (5 * doy + 2) \div 153)

CivilFromYoe(era, doe, yoe) ==
    CivilFromDoy(yoe + era * 400, doe - (365 * yoe + yoe \div 4 - yoe \div 100))

CivilFromDoe(era, doe) ==
    CivilFromYoe(era, doe,
                 (doe - doe \div 1460 + doe \div 36524 - doe \div 146096) \div 365)

CivilFromDays(z) ==
    CivilFromDoe((z + 719468) \div 146097, (z + 719468) % 146097)

WithHour(c, h) == [y |-> c.y, m |-> c.m, d |-> c.d, h |-> h]

\* The local wall-clock fields of the instant t in a zone at offset tz.
LocalFields(t, tz) == WithHour(CivilFromDays((t + tz) \div 24), (t + tz) % 24)

getFullYear(t, tz) == LocalFields(t, tz).y
getMonth(t, tz)    == LocalFields(t, tz).m - 1
getDate(t, tz)     == LocalFields(t, tz).d

\* The instant whose local wall-clock fields are y, m (1..12), d, h.
MakeLocal(y, m, d, h, tz) == DaysFromCivil(y, m, d) * 24 + h - tz

-----------------------------------------------------------------------------
(* URLSchemeHandler: date normalisation.                                    *)

ParseFields(s, tz) ==
    CASE s.form = "date"  -> [nan |-> FALSE, time |-> DaysFromCivil(s.y, s.m, s.d) * 24]
      [] s.form = "utc"   -> [nan |-> FALSE, time |-> DaysFromCivil(s.y, s.m, s.d) * 24 + s.h]
      [] s.form = "local" -> [nan |-> FALSE, time |-> MakeLocal(s.y, s.m, s.d, s.h, tz)]

\* new Date(isoDate).getTime(): the instant in hours, or NaN.
ParseDate(isoDate, tz) ==
    IF isoDate.t # "datestring" THEN [nan |-> TRUE, time |-> 0]
    ELSE ParseFields(isoDate.v, tz)

\* The same comparison on the UTC fields (getUTCFullYear, ...).
isSameDay_utc(date1, date2, tz) ==
    /\ getFullYear(date1, 0) = getFullYear(date2, 0)
    /\ getMonth(date1, 0) = getMonth(date2, 0)
    /\ getDate(date1, 0) = getDate(date2, 0)

isSameDay(date1, date2, tz) ==
    /\ getFullYear(date1, tz) = getFullYear(date2, tz)
    /\ getMonth(date1, tz) = getMonth(date2, tz)
    /\ getDate(date1, tz) = getDate(date2, tz)

\* date.setDate(day) on the local fields f of date
setDate(f, day, tz) == MakeLocal(f.y, f.m, day, f.h, tz)

\* tomorrow = new Date(today); tomorrow.setDate(tomorrow.getDate() + 1)
Tomorrow(today, tz) == setDate(LocalFields(today, tz), getDate(today, tz) + 1, tz)

ZeroPad(s, missing) ==
    CASE missing <= 0 -> s
      [] missing = 1  -> "0" \o s
      [] missing = 2  -> "00" \o s
      [] missing = 3  -> "000" \o s
      [] missing = 4  -> "0000" \o s
      [] OTHER        -> "00000" \o s

\* n written in at least width digits
Digits(n, width) == ZeroPad(ToString(n), width - Len(ToString(n)))

\* The calendar date written as YYYY-MM-DD.
YMD(c) == Digits(c.y, 4) \o "-" \o Digits(c.m, 2) \o "-" \o Digits(c.d, 2)

\* A year outside 0..9999 is written with a sign and six digits (ECMAScript
\* expanded years).
IsoOfCivil(c) ==
    IF 0 <= c.y /\ c.y <= 9999 THEN YMD(c)
    ELSE (IF c.y < 0 THEN "-" ELSE "+")
         \o Digits(IF c.y < 0 THEN 0 - c.y ELSE c.y, 6)
         \o "-" \o Digits(c.m, 2) \o "-" \o Digits(c.d, 2)

\* date.toISOString().split('T')[0]: the UTC calendar date
IsoDatePart(time) == IsoOfCivil(CivilFromDays(time \div 24))

\* formatDateForUrl once the string is parsed
FormatParsed(date, now, tz) ==
    IF date.nan THEN Undef
    ELSE IF isSameDay(date.time, now, tz) THEN Str("today")
    ELSE IF isSameDay(date.time, Tomorrow(now, tz), tz) THEN Str("tomorrow")
    ELSE Str(IsoDatePart(date.time))

formatDateForUrl(isoDate, now, tz) ==
    IF Falsy(isoDate) THEN Undef
    ELSE FormatParsed(ParseDate(isoDate, tz), now, tz)

-----------------------------------------------------------------------------
(* URLSchemeHandler: URL and structured-document encoding.  A URL is kept   *)
(* as its operation and its ordered query pairs (percent-encoding is not    *)
(* modelled), a document as the attributes object of each of its items.     *)

RECURSIVE Join(_, _)
\* array.join(sep)
Join(items, sep) ==
    IF Len(items) = 0 THEN ""
    ELSE IF Len(items) = 1 THEN items[1]
    ELSE items[1] \o sep \o Join(Tail(items), sep)

\* a || b
Or(a, b) == IF Falsy(a) THEN b ELSE a

\* String(value) / the array and boolean cases of buildUrl
UrlValue(x) ==
    CASE x.t = "array"   -> Join(x.v, ",")
      [] x.t = "boolean" -> (IF x.v THEN "true" ELSE "false")
      [] OTHER           -> x.v

RECURSIVE AppendParams(_, _)
\* Object.entries(params).forEach: null and undefined values are skipped
AppendParams(query, entries) ==
    IF Len(entries) = 0 THEN query
    ELSE LET e == Head(entries) IN
         AppendParams(IF e.v # Null /\ e.v # Undef
                      THEN Append(query, [k |-> e.k, v |-> UrlValue(e.v)])
                      ELSE query,
                      Tail(entries))

buildUrl(operation, entries, authToken) ==
    [operation |-> operation,
     query |-> AppendParams(IF ~Falsy(authToken)
                            THEN <<[k |-> "auth-token", v |-> authToken.v]>>
                            ELSE <<>>,
                            entries)]

\* JSON.stringify of an attributes object: a property whose value is
\* undefined is left out; null is written as null.
JsonStringify(attributes) ==
    [k \in {x \in DOMAIN attributes : attributes[x] # Undef} |-> attributes[k]]

buildJsonUrl(items, authToken) ==
    [operation |-> "json",
     data |-> [i \in 1..Len(items) |->
                 [type |-> items[i].type, id |-> items[i].id,
                  operation |-> items[i].operation,
                  attributes |-> JsonStringify(items[i].attributes)]],
     query |-> IF ~Falsy(authToken)
               THEN <<[k |-> "auth-token", v |-> authToken.v]>>
               ELSE <<>>]

\* tags?.join(',')
JoinTags(tags) == IF tags = Undef THEN Undef ELSE Str(Join(tags.v, ","))

\* The add URL of URLSchemeHandler.createTodo
Url_createTodo_url(p, authToken, now, tz) ==
    LET items == Get(p, "checklistItems")
        base  == << [k |-> "title",    v |-> Get(p, "title")],
                    [k |-> "notes",    v |-> Get(p, "notes")],
                    [k |-> "when",     v |-> formatDateForUrl(Get(p, "whenDate"), now, tz)],
                    [k |-> "deadline", v |-> formatDateForUrl(Get(p, "deadline"), now, tz)],
                    [k |-> "tags",     v |-> JoinTags(Get(p, "tags"))],
                    [k |-> "list-id",  v |-> Or(Get(p, "projectId"), Get(p, "areaId"))],
                    [k |-> "heading",  v |-> Get(p, "heading")] >>
    IN  buildUrl("add",
                 IF items # Undef /\ Len(items.v) > 0
                 THEN Append(base, [k |-> "checklist-items", v |-> Str(Join(items.v, "\n"))])
                 ELSE base,
                 authToken)

\* "Remove undefined values"
RemoveUndefined(attributes) ==
    [k \in {x \in DOMAIN attributes : attributes[x] # Undef} |-> attributes[k]]

\* A handler that never attaches the token
WithAuth_omitted(attributes, authToken) == attributes

\* attributes['auth-token'] = authToken, when there is a token
WithAuth(attributes, authToken) ==
    IF ~Falsy(authToken) THEN ("auth-token" :> authToken) @@ attributes
    ELSE attributes

\* x == null ? '' : formatDateForUrl(x): the loose comparison also takes an
\* absent attribute for a cleared one.
ClearOrFormat_loose(x, now, tz) ==
    IF x = Null \/ x = Undef THEN Str("") ELSE formatDateForUrl(x, now, tz)

\* x === null ? '' : formatDateForUrl(x)
ClearOrFormat(x, now, tz) ==
    IF x = Null THEN Str("") ELSE formatDateForUrl(x, now, tz)

\* The attributes of the update item URLSchemeHandler.updateTodo builds
Url_updateTodo_attributes(p, authToken, now, tz) ==
    LET listId == Get(p, "listId")
        attributes ==
            ("title" :> Get(p, "title")) @@
            ("notes" :> Get(p, "notes")) @@
            ("when" :> ClearOrFormat(Get(p, "whenDate"), now, tz)) @@
            ("deadline" :> ClearOrFormat(Get(p, "deadline"), now, tz)) @@
            ("tags" :> Get(p, "tags")) @@
            ("completed" :> Get(p, "completed")) @@
            ("canceled" :> Get(p, "canceled")) @@
            ("list-id" :> IF listId = Null THEN Str("") ELSE listId)
    IN  RemoveUndefined(WithAuth(attributes, authToken))

Url_updateTodo_url(id, p, authToken, now, tz) ==
    buildJsonUrl(<<[type |-> "to-do", id |-> id, operation |-> "update",
                    attributes |-> Url_updateTodo_attributes(p, authToken, now, tz)]>>,
                 authToken)

\* The attributes of the update item URLSchemeHandler.updateProject builds
Url_updateProject_attributes(p, authToken, now, tz) ==
    LET areaId == Get(p, "areaId")
        attributes ==
            ("title" :> Get(p, "title")) @@
            ("notes" :> Get(p, "notes")) @@
            ("when" :> ClearOrFormat(Get(p, "whenDate"), now, tz)) @@
            ("deadline" :> ClearOrFormat(Get(p, "deadline"), now, tz)) @@
            ("tags" :> Get(p, "tags")) @@
            ("completed" :> Get(p, "completed")) @@
            ("canceled" :> Get(p, "canceled")) @@
            ("area-id" :> IF areaId = Null THEN Str("") ELSE areaId)
    IN  RemoveUndefined(WithAuth(attributes, authToken))

Url_updateProject_url(id, p, authToken, now, tz) ==
    buildJsonUrl(<<[type |-> "project", id |-> id, operation |-> "update",
                    attributes |-> Url_updateProject_attributes(p, authToken, now, tz)]>>,
                 authToken)

\* URLSchemeHandler.bulkUpdateDates: one update item per id; undefined
\* values are not removed here, JSON.stringify leaves them out.
Url_bulkUpdateDates_url(todoIds, whenDate, deadline, authToken, now, tz) ==
    buildJsonUrl([i \in 1..Len(todoIds) |->
                    [type |-> "to-do", id |-> todoIds[i], operation |-> "update",
                     attributes |->
                        WithAuth(("when" :> ClearOrFormat(whenDate, now, tz)) @@
                                 ("deadline" :> ClearOrFormat(deadline, now, tz)),
                                 authToken)]],
                 authToken)

\* The updateParams TodosTools.updateTodo hands to URLSchemeHandler.updateTodo
Tools_updateParams(correctedParams) ==
    LET copy(k) == IF Get(correctedParams, k) # Undef
                   THEN k :> correctedParams[k] ELSE <<>>
        projectId == Get(correctedParams, "projectId")
        areaId    == Get(correctedParams, "areaId")
    IN  copy("title") @@ copy("notes") @@ copy("whenDate") @@ copy("deadline")
        @@ copy("tags")
        @@ (IF projectId # Undef \/ areaId # Undef
            THEN "listId" :> Or(Or(projectId, areaId), Null)
            ELSE <<>>)

Tools_updateTodo_url(correctedParams, authToken, now, tz) ==
    Url_updateTodo_url(Get(correctedParams, "id").v, Tools_updateParams(correctedParams),
                       authToken, now, tz)

-----------------------------------------------------------------------------
(* Values the variables of a specification that is not running hold.        *)

DateOff == /\ dPc = "off" /\ dIn = Undef /\ dNow = 0 /\ dTz = 0
           /\ dOut = Undef /\ dKeys = {} /\ dIn2 = Undef /\ dOut2 = Undef

EncOff  == /\ ePc = "off" /\ eOp = "none" /\ eIntent = <<>> /\ eToken = Undef
           /\ eDoc = <<>>

BatchOff == /\ bPc = "off" /\ bOp = "none" /\ bHost0 = <<>> /\ bHost = <<>>
            /\ bIds = <<>> /\ bArg = <<>> /\ bIdx = 0 /\ bLog = <<>>
            /\ bWrites = <<>> /\ bCount = 0 /\ bResult = <<>>

ChanOff == /\ cChan = "none" /\ cProc = "none" /\ cCode = 0 /\ cStdout = <<>>
           /\ cTimer = "none" /\ cCall = "none" /\ cValue = <<>> /\ cEvents = <<>>

-----------------------------------------------------------------------------
(* SpecDate: formatDateForUrl, alone and inside the create URL and the      *)
(* update document, on bounded inputs, clocks and zones.                    *)

\* Inputs and clocks lie within DaySpan days of the base date, a year end.
DaySpan == 1
BaseDay == DaysFromCivil(2025, 12, 31)
Hours   == {0, 5, 12, 23}
TzOffsets == {-12, -5, 0, 2, 14}
NearDays == (BaseDay - DaySpan)..(BaseDay + DaySpan)

DateStrOf(form, day, h) ==
    LET c == CivilFromDays(day) IN DateStr(form, c.y, c.m, c.d, h)

\* The last day of year 9999 and the first of year 10000.
FarDays == {DaysFromCivil(9999, 12, 31), DaysFromCivil(10000, 1, 1)}

DateInputs ==
    {Undef, Null, Str(""), Str("not a date")}
    \cup {DateStrOf("date", day, 0) : day \in NearDays}
    \cup {DateStrOf(form, day, h) : form \in {"utc", "local"}, day \in NearDays, h \in Hours}
    \cup {DateStrOf(form, day, h) : form \in {"utc", "local"}, day \in FarDays, h \in {0, 23}}

Clocks == {day * 24 + h : day \in NearDays, h \in Hours}

InitDate ==
    /\ dPc = "idle"
    /\ dIn \in DateInputs
    /\ dNow \in Clocks
    /\ dTz \in TzOffsets
    /\ dOut = Undef
    /\ dKeys = {}
    /\ dIn2 = Undef
    /\ dOut2 = Undef
    /\ EncOff
    /\ host = <<>> /\ op = "none" /\ pc = "off" /\ params = <<>> /\ trace = <<>>
    /\ result = <<>> /\ pending = <<>> /\ seen = <<>>
    /\ BatchOff
    /\ ChanOff

\* A direct call of formatDateForUrl(dIn)
FormatDate ==
    /\ dPc = "idle"
    /\ dOut' = formatDateForUrl(dIn, dNow, dTz)
    /\ dPc' = "formatted"
    /\ UNCHANGED <<dIn, dNow, dTz, dKeys, dIn2, dOut2, encVars, opVars, batchVars, chanVars>>

\* URLSchemeHandler.createTodo({title, whenDate: dIn}): the keys of the add URL
DateInCreateUrl ==
    /\ dPc = "idle"
    /\ dIn # Null
    /\ LET p   == ("title" :> Str("T")) @@ (IF dIn = Undef THEN <<>> ELSE "whenDate" :> dIn)
           url == Url_createTodo_url(p, Undef, dNow, dTz)
       IN  /\ dKeys' = {url.query[i].k : i \in 1..Len(url.query)}
           /\ dOut' = formatDateForUrl(Get(p, "whenDate"), dNow, dTz)
    /\ dPc' = "create"
    /\ UNCHANGED <<dIn, dNow, dTz, dIn2, dOut2, encVars, opVars, batchVars, chanVars>>

\* URLSchemeHandler.updateTodo(id, {title, deadline: dIn}): the keys of the document
DateInUpdateDoc ==
    /\ dPc = "idle"
    /\ LET p   == ("title" :> Str("T")) @@ (IF dIn = Undef THEN <<>> ELSE "deadline" :> dIn)
           url == Url_updateTodo_url("id1", p, Undef, dNow, dTz)
       IN  /\ dKeys' = DOMAIN url.data[1].attributes
           /\ dOut' = formatDateForUrl(Get(p, "deadline"), dNow, dTz)
    /\ dPc' = "update"
    /\ UNCHANGED <<dIn, dNow, dTz, dIn2, dOut2, encVars, opVars, batchVars, chanVars>>

\* A second call of formatDateForUrl, on dIn with another time of day
FormatOtherTime ==
    /\ dPc = "formatted"
    /\ dIn.t = "datestring"
    /\ dIn.v.form # "date"
    /\ \E h \in Hours \ {dIn.v.h} :
          /\ dIn2' = DateStr(dIn.v.form, dIn.v.y, dIn.v.m, dIn.v.d, h)
          /\ dOut2' = formatDateForUrl(DateStr(dIn.v.form, dIn.v.y, dIn.v.m, dIn.v.d, h),
                                       dNow, dTz)
    /\ dPc' = "pair"
    /\ UNCHANGED <<dIn, dNow, dTz, dOut, dKeys, encVars, opVars, batchVars, chanVars>>

NextDate == FormatDate \/ DateInCreateUrl \/ DateInUpdateDoc \/ FormatOtherTime

SpecDate == InitDate /\ [][NextDate]_vars

-----------------------------------------------------------------------------
(* Claims about the date normaliser (checked under SpecDate).               *)

\* The local calendar day (a day number) an instant falls on.
LocalDay(t, tz) == (t + tz) \div 24

DateRan == dPc \in {"formatted", "create", "update"}

\* Days around the inputs of the model, to recognise a written calendar date.
CandidateDays ==
    ((BaseDay - DaySpan - 2)..(BaseDay + DaySpan + 2))
    \cup UNION {(f - 2)..(f + 2) : f \in FarDays}

\* x is a string of the form YYYY-MM-DD
IsYMD(x) ==
    /\ x.t = "string"
    /\ \E z \in CandidateDays :
          /\ CivilFromDays(z).y \in 0..9999
          /\ x.v = YMD(CivilFromDays(z))

\* C8: formatDateForUrl returns undefined, 'today', 'tomorrow' or a string
\* YYYY-MM-DD; an unparseable, empty or absent input gives undefined, and the
\* when / deadline attribute is then left out of the create URL and of the
\* update document.
C8_OutputVocabulary ==
    DateRan =>
        /\ dOut \in {Undef, Str("today"), Str("tomorrow")} \/ IsYMD(dOut)
        /\ dIn \in {Undef, Null, Str(""), Str("not a date")} => dOut = Undef
        /\ (dPc = "create" /\ dOut = Undef) => "when" \notin dKeys
        /\ (dPc = "update" /\ dOut = Undef /\ dIn # Null) => "deadline" \notin dKeys

\* C9: for a parseable input, the result is 'today' exactly when the input
\* falls on the current local calendar date, and 'tomorrow' exactly when it
\* falls on the next one, whatever the times of day.
C9_TodayTomorrowByLocalDate ==
    (dPc = "formatted" /\ dIn.t = "datestring") =>
        /\ dOut = Str("today")
              <=> LocalDay(ParseDate(dIn, dTz).time, dTz) = LocalDay(dNow, dTz)
        /\ dOut = Str("tomorrow")
              <=> LocalDay(ParseDate(dIn, dTz).time, dTz) = LocalDay(dNow, dTz) + 1

\* C9 witness: 'tomorrow' across a year end, away from UTC, with the input's
\* time of day other than the clock's.
C9_YearEndTomorrow ==
    /\ dPc = "formatted"
    /\ dIn.t = "datestring"
    /\ dOut = Str("tomorrow")
    /\ dTz # 0
    /\ LocalFields(dNow, dTz).m = 12
    /\ LocalFields(dNow, dTz).d = 31
    /\ LocalFields(ParseDate(dIn, dTz).time, dTz).h # LocalFields(dNow, dTz).h

\* C10: when the input is neither today nor tomorrow, the result is the ISO
\* form of the local calendar date that was compared.
C10_IsoOfComparedDate ==
    (dPc = "formatted" /\ dIn.t = "datestring"
       /\ dOut \notin {Str("today"), Str("tomorrow")}) =>
        dOut = Str(IsoOfCivil(CivilFromDays(LocalDay(ParseDate(dIn, dTz).time, dTz))))

\* C11: two parseable inputs on the same calendar date that differ only in
\* their time of day are normalised to the same output, under the same
\* clock and time zone.
C11_TimeOfDayDropped ==
    (/\ dPc = "pair"
     /\ LocalDay(ParseDate(dIn, dTz).time, dTz) = LocalDay(ParseDate(dIn2, dTz).time, dTz))
    => dOut2 = dOut

-----------------------------------------------------------------------------
(* SpecEncode: the update encoders on bounded update intents.  An intent is *)
(* a function from the attribute keys it carries to their values: an        *)
(* absent key is not in its domain, a cleared attribute is present with     *)
(* null.                                                                    *)

Absent == [t |-> "absent", v |-> ""]

\* The intent that carries the keys of the record r that are not Absent
Intent(r) == [k \in {x \in DOMAIN r : r[x] # Absent} |-> r[k]]

EncToday == DateStrOf("date", BaseDay, 0)
EncOther == DateStrOf("utc", BaseDay + 9, 5)
DateValues == {Absent, Null, Str("not a date"), EncToday, EncOther}

\* TodosUpdateParams after correction, as TodosTools.updateTodo reads them
ToolsIntents ==
    { Intent(r) : r \in
        [id : {Str("id1")},
         title : {Absent, Str("T")},
         notes : {Absent, Null, Str("N")},
         whenDate : DateValues,
         deadline : {Absent, Null, EncOther},
         tags : {Absent, Arr(<<>>), Arr(<<"a", "b">>)},
         projectId : {Absent, Null, Str("P")},
         areaId : {Absent, Null, Str("A")}] }

\* The params of URLSchemeHandler.updateTodo
UrlTodoIntents ==
    { Intent(r) : r \in
        [title : {Absent, Str("T")},
         notes : {Absent, Str("N")},
         whenDate : DateValues,
         deadline : {Absent, Null, EncOther},
         tags : {Absent, Arr(<<"a">>)},
         completed : {Absent, Bool(TRUE)},
         canceled : {Absent, Bool(FALSE)},
         listId : {Absent, Null, Str("P")}] }

\* The params of URLSchemeHandler.updateProject
ProjectIntents ==
    { Intent(r) : r \in
        [title : {Absent, Str("T")},
         notes : {Absent, Str("N")},
         whenDate : DateValues,
         deadline : {Absent, Null, EncOther},
         tags : {Absent, Arr(<<"a">>)},
         completed : {Absent, Bool(TRUE)},
         canceled : {Absent, Bool(FALSE)},
         areaId : {Absent, Null, Str("A")}] }

\* The whenDate and deadline arguments of URLSchemeHandler.bulkUpdateDates
BulkIntents ==
    { Intent(r) : r \in [whenDate : DateValues, deadline : DateValues] }

\* The number of ids a bulk update carries
MaxBulkIds == 2
BulkIds == [i \in 1..MaxBulkIds |-> ToString(i)]

Tokens == {Undef, Str(""), Str("tok")}

InitEncode ==
    /\ ePc = "idle"
    /\ \/ eOp = "TodosTools.updateTodo" /\ eIntent \in ToolsIntents
       \/ eOp = "URLSchemeHandler.updateTodo" /\ eIntent \in UrlTodoIntents
       \/ eOp = "URLSchemeHandler.updateProject" /\ eIntent \in ProjectIntents
       \/ eOp = "URLSchemeHandler.bulkUpdateDates" /\ eIntent \in BulkIntents
    /\ eToken \in Tokens
    /\ eDoc = <<>>
    /\ dPc = "off" /\ dIn = Undef /\ dNow = BaseDay * 24 + 12 /\ dTz = 2
    /\ dOut = Undef /\ dKeys = {} /\ dIn2 = Undef /\ dOut2 = Undef
    /\ host = <<>> /\ op = "none" /\ pc = "off" /\ params = <<>> /\ trace = <<>>
    /\ result = <<>> /\ pending = <<>> /\ seen = <<>>
    /\ BatchOff
    /\ ChanOff

\* The attributes objects of the items of an encoded document
ItemAttributes(url) == [i \in 1..Len(url.data) |-> url.data[i].attributes]

Encoded(url) ==
    /\ eDoc' = ItemAttributes(url)
    /\ ePc' = "done"
    /\ UNCHANGED <<eOp, eIntent, eToken, dateVars, opVars, batchVars, chanVars>>

EncodeToolsUpdateTodo ==
    /\ ePc = "idle" /\ eOp = "TodosTools.updateTodo"
    /\ Encoded(Tools_updateTodo_url(eIntent, eToken, dNow, dTz))

EncodeUrlUpdateTodo ==
    /\ ePc = "idle" /\ eOp = "URLSchemeHandler.updateTodo"
    /\ Encoded(Url_updateTodo_url("id1", eIntent, eToken, dNow, dTz))

EncodeUrlUpdateProject ==
    /\ ePc = "idle" /\ eOp = "URLSchemeHandler.updateProject"
    /\ Encoded(Url_updateProject_url("id1", eIntent, eToken, dNow, dTz))

EncodeUrlBulkUpdateDates ==
    /\ ePc = "idle" /\ eOp = "URLSchemeHandler.bulkUpdateDates"
    /\ Encoded(Url_bulkUpdateDates_url(BulkIds, Get(eIntent, "whenDate"),
                                       Get(eIntent, "deadline"), eToken, dNow, dTz))

NextEncode ==
    \/ EncodeToolsUpdateTodo
    \/ EncodeUrlUpdateTodo
    \/ EncodeUrlUpdateProject
    \/ EncodeUrlBulkUpdateDates

SpecEncode == InitEncode /\ [][NextEncode]_vars

-----------------------------------------------------------------------------
(* Claims about the update encoders (checked under SpecEncode).             *)

\* The intent keys that a key of the document attributes comes from
IntentKeys(operation, key) ==
    CASE key = "when" -> {"whenDate"}
      [] key = "list-id" /\ operation = "TodosTools.updateTodo" -> {"projectId", "areaId"}
      [] key = "list-id" -> {"listId"}
      [] key = "area-id" -> {"areaId"}
      [] OTHER -> {key}

\* C6: an attribute whose key is absent from the update intent never appears
\* as a key of the attributes object of the encoded document; only the
\* auth-token may appear without being in the intent.
C6_AbsentKeyNeverEncoded ==
    ePc = "done" =>
        \A i \in 1..Len(eDoc) :
            \A k \in (DOMAIN eDoc[i]) \ {"auth-token"} :
                IntentKeys(eOp, k) \cap DOMAIN eIntent # {}

\* C6 witness: an update of the notes alone, with a token, encodes the notes
\* and the token and nothing else.
C6_NotesOnly ==
    /\ ePc = "done"
    /\ eOp = "TodosTools.updateTodo"
    /\ DOMAIN eIntent = {"id", "notes"}
    /\ DOMAIN eDoc[1] = {"notes", "auth-token"}

\* The clear sentinel of the host
ClearSentinel == Str("")

\* C7: through TodosTools.updateTodo, each attribute explicitly set to null
\* (notes, whenDate, deadline, projectId / areaId) appears in the document
\* with the clear sentinel, never as JSON null and never omitted.
C7_NullEncodedAsClear ==
    (ePc = "done" /\ eOp = "TodosTools.updateTodo") =>
        /\ Get(eIntent, "notes") = Null => Get(eDoc[1], "notes") = ClearSentinel
        /\ Get(eIntent, "whenDate") = Null => Get(eDoc[1], "when") = ClearSentinel
        /\ Get(eIntent, "deadline") = Null => Get(eDoc[1], "deadline") = ClearSentinel
        /\ (/\ Null \in {Get(eIntent, "projectId"), Get(eIntent, "areaId")}
            /\ {Get(eIntent, "projectId"), Get(eIntent, "areaId")} \subseteq {Null, Undef})
              => Get(eDoc[1], "list-id") = ClearSentinel

-----------------------------------------------------------------------------
(* The host application's to-dos and the listTodos script template.         *)
(* A title or a note is a sequence of characters.  A to-do is               *)
(*   [id, title, notes, status, list]                                       *)
(* where list is "Inbox" or, for a to-do that is filed in a project or an   *)
(* area or is scheduled, "Anytime".                                         *)

\* AppleScript compares text ignoring case
Lower(c) ==
    CASE c = "M" -> "m"
      [] c = "K" -> "k"
      [] c = "A" -> "a"
      [] OTHER   -> c

LowerText(s) == [i \in 1..Len(s) |-> Lower(s[i])]

\* text contains sub (AppleScript "contains")
Contains(text, sub) ==
    \E i \in 0..(Len(text) - Len(sub)) :
        \A j \in 1..Len(sub) : Lower(text[i + j]) = Lower(sub[j])

\* The list a filter keyword names; no keyword means every to-do
ListName(filter) ==
    CASE filter = Str("inbox")    -> "Inbox"
      [] filter = Str("today")    -> "Today"
      [] filter = Str("upcoming") -> "Upcoming"
      [] filter = Str("anytime")  -> "Anytime"
      [] filter = Str("someday")  -> "Someday"
      [] filter = Str("logbook")  -> "Logbook"
      [] OTHER                    -> "to dos"

InList(todo, filter) == ListName(filter) = "to dos" \/ todo.list = ListName(filter)

\* "if status of t is ..." of the generated script
StatusMatches(todo, status) ==
    CASE status = Str("open")      -> todo.status = "open"
      [] status = Str("completed") -> todo.status = "completed"
      [] status = Str("cancelled") -> todo.status = "canceled"
      [] OTHER                     -> TRUE

\* "if (name of t contains ... or notes of t contains ...)"
TextMatches(todo, searchText) ==
    Falsy(searchText)
    \/ Contains(todo.title, searchText.v)
    \/ Contains(todo.notes, searchText.v)

ScriptSelects(todo, filter, status, searchText) ==
    /\ InList(todo, filter)
    /\ StatusMatches(todo, status)
    /\ TextMatches(todo, searchText)

RECURSIVE Select(_, _, _, _)
\* The to-dos the script of templates.listTodos returns, in the host's order
Select(todos, filter, status, searchText) ==
    IF Len(todos) = 0 THEN <<>>
    ELSE (IF ScriptSelects(Head(todos), filter, status, searchText)
          THEN <<[id |-> Head(todos).id, title |-> Head(todos).title,
                  completed |-> Head(todos).status = "completed"]>>
          ELSE <<>>)
         \o Select(Tail(todos), filter, status, searchText)

\* array.slice(start, end) for 0 <= start
Slice(items, start, end) ==
    IF end <= start \/ start >= Len(items) THEN <<>>
    ELSE SubSeq(items, start + 1, IF end < Len(items) THEN end ELSE Len(items))

\* x || fallback, for a number x
NumOr(x, fallback) == IF Falsy(x) THEN fallback ELSE x.v

\* "Apply pagination" of TodosTools.listTodos
Paginate(filtered, offset, limit) ==
    IF offset # Undef \/ limit # Undef
    THEN Slice(filtered, NumOr(offset, 0),
               NumOr(offset, 0) + NumOr(limit, Len(filtered)))
    ELSE filtered

\* What TodosTools.listTodos(p) returns when its script runs against todos
Tools_listTodos(todos, p) ==
    Paginate(Select(todos, Get(p, "filter"), Get(p, "status"), Get(p, "searchText")),
             Get(p, "offset"), Get(p, "limit"))

\* The result caps of the two recovery searches of createTodo
NarrowLimit == 10
FallbackLimit == 50

\* The parameters of the narrow search
NarrowParams(title) ==
    [searchText |-> Text(title), status |-> Str("open"), limit |-> Num(NarrowLimit)]

\* The parameters of the fallback search
FallbackParams ==
    [filter |-> Str("inbox"), status |-> Str("open"), limit |-> Num(FallbackLimit)]

\* searchResult.filter(todo => todo.title === title)
ExactTitle(found, title) == SelectSeq(found, LAMBDA todo : todo.title = title)

\* The matches of the narrow search
NarrowMatches(todos, title) == ExactTitle(Tools_listTodos(todos, NarrowParams(title)), title)

\* The matches of the fallback search
FallbackMatches(todos, title) == ExactTitle(Tools_listTodos(todos, FallbackParams), title)

-----------------------------------------------------------------------------
(* Spec: one invocation of a TodosTools operation against a host.           *)

\* The title a create asks for, and the to-dos a host may hold next to it
Title == <<"m", "k">>

Todo(title, notes, status, list) ==
    [id |-> "", title |-> title, notes |-> notes, status |-> status, list |-> list,
     project |-> ""]

TodoKinds ==
    { Todo(Title, <<>>, "open", "Inbox"),
      Todo(Title, <<>>, "open", "Anytime"),
      Todo(Title, <<>>, "completed", "Inbox"),
      Todo(<<"M", "K">>, <<>>, "open", "Inbox"),
      [Todo(<<"t">>, <<"m", "k">>, "open", "Anytime") EXCEPT !.project = "P"],
      Todo(<<"t">>, <<>>, "open", "Inbox") }

\* An open to-do whose title holds the requested one and goes on
PadTodo == Todo(<<"m", "k", "2">>, <<>>, "open", "Anytime")

\* A host is up to MaxPad such to-dos followed by up to MaxCore others
MaxPad == 11
MaxCore == 2

WithIds(todos) == [i \in 1..Len(todos) |-> [todos[i] EXCEPT !.id = ToString(i)]]

Hosts ==
    { WithIds([i \in 1..k |-> PadTodo] \o core) :
        k \in 0..MaxPad,
        core \in UNION {[1..n -> TodoKinds] : n \in 0..MaxCore} }

\* Errors.  A Things3Error has a type; any other error is a plain Error.
Things3Error(type, message, details) ==
    [class |-> "Things3Error", type |-> type, message |-> message, details |-> details]
PlainError(message) ==
    [class |-> "Error", type |-> "", message |-> message, details |-> ""]

\* What ensureThings3Running and ensureTagsExist may throw
EnsureErrors == {Things3Error("THINGS_NOT_RUNNING", "bridge", "")}
\* What bridge.execute and JSON.parse may throw
ScriptErrors == {Things3Error("APPLESCRIPT_ERROR", "bridge", ""),
                 Things3Error("TIMEOUT", "bridge", ""),
                 PlainError("SyntaxError")}

\* A catch block that wraps whatever it catches
Caught_rewrap(error, message) == Things3Error("UNKNOWN", message, error.message)

\* The catch block of every TodosTools operation
Caught(error, message) ==
    IF error.class = "Things3Error" THEN error
    ELSE Things3Error("UNKNOWN", message, error.message)

\* The outcome of an invocation: nothing yet, a returned value, or an error
NoResult ==
    [kind |-> "none", success |-> FALSE, id |-> "", count |-> 0, items |-> <<>>,
     error |-> PlainError("")]
Returned(success, id, count, items) ==
    [kind |-> "returned", success |-> success, id |-> id, count |-> count,
     items |-> items, error |-> PlainError("")]
Thrown(error) ==
    [kind |-> "error", success |-> FALSE, id |-> "", count |-> 0, items |-> <<>>,
     error |-> error]

NotSeen == [n |-> 0, narrowHost |-> <<>>, fallbackHost |-> <<>>]

Init ==
    /\ host \in Hosts
    /\ op = "none"
    /\ pc = "idle"
    /\ params = <<>>
    /\ trace = <<>>
    /\ result = NoResult
    /\ pending = <<>>
    /\ seen = NotSeen
    /\ DateOff
    /\ EncOff
    /\ BatchOff
    /\ ChanOff

\* The operation ends by throwing error out of its try block
Throw(error, message) ==
    /\ result' = Thrown(Caught(error, message))
    /\ pc' = "done"

\* The operation ends by returning r
Return(r) ==
    /\ result' = r
    /\ pc' = "done"

Ids(todos) == {todos[i].id : i \in 1..Len(todos)}

\* The id lists the batch operations are invoked with
IdLists == {<<"1">>, <<"1", "none">>, <<"2", "none", "1">>}

Message(operation) ==
    CASE operation = "listTodos"      -> "Failed to list TODOs"
      [] operation = "getTodo"        -> "Failed to get TODO"
      [] operation = "createTodo"     -> "Failed to create TODO"
      [] operation = "updateTodo"     -> "Failed to update TODO"
      [] operation = "completeTodos"  -> "Failed to complete TODOs"
      [] operation = "uncompleteTodos" -> "Failed to uncomplete TODOs"
      [] operation = "deleteTodos"    -> "Failed to delete TODOs"
      [] OTHER                        -> "Failed to add checklist items to TODO"

\* The parameter sets each operation is invoked with
ParamsOf(operation) ==
    CASE operation = "createTodo" ->
            {[title |-> Text(Title)], [title |-> Text(Title), projectId |-> Str("P")]}
      [] operation = "updateTodo" ->
            {[id |-> Str("1"), title |-> Text(Title)], [id |-> Str("none"), notes |-> Null]}
      [] operation \in {"completeTodos", "uncompleteTodos", "deleteTodos"} ->
            {[ids |-> ids] : ids \in IdLists}
      [] operation = "addChecklistItems" ->
            {[todoId |-> Str("1"), items |-> Arr(<<"a", "b">>)]}
      [] operation = "getTodo" ->
            {[id |-> Str("1")], [id |-> Str("none")]}
      [] OTHER ->
            {NarrowParams(Title), FallbackParams,
             [status |-> Str("open"), offset |-> Num(1), limit |-> Num(0)],
             [filter |-> Str("inbox")],
             [projectId |-> Str("P")]}

Operations ==
    {"listTodos", "getTodo", "createTodo", "updateTodo", "completeTodos",
     "uncompleteTodos", "deleteTodos", "addChecklistItems"}

\* Operations whose host call is an activation (URLSchemeHandler)
UrlOperations ==
    {"createTodo", "updateTodo", "completeTodos", "uncompleteTodos", "addChecklistItems"}

\* A caller invokes an operation
Invoke ==
    /\ pc = "idle"
    /\ \E o \in Operations :
          /\ op' = o
          /\ params' \in ParamsOf(o)
    /\ pc' = "ensure"
    /\ UNCHANGED <<host, trace, result, pending, seen, dateVars, encVars, batchVars, chanVars>>

\* await this.bridge.ensureThings3Running(), and for createTodo and
\* updateTodo the parameter correction and ensureTagsExist: they pass or throw.
Ensure ==
    /\ pc = "ensure"
    /\ \/ /\ pc' = IF op \in UrlOperations THEN "open" ELSE "script"
          /\ UNCHANGED result
       \/ \E e \in EnsureErrors : Throw(e, Message(op))
    /\ UNCHANGED <<host, op, params, trace, pending, seen, dateVars, encVars, batchVars, chanVars>>

\* The command an operation's URL asks the host for
Command(operation, p) ==
    [kind |-> operation,
     list |-> IF Falsy(Or(Get(p, "projectId"), Get(p, "areaId"))) THEN "Inbox" ELSE "Anytime",
     title |-> IF Get(p, "title") = Undef THEN <<>> ELSE p.title.v,
     ids |-> CASE "ids" \in DOMAIN p -> p.ids
               [] "id" \in DOMAIN p -> <<p.id.v>>
               [] "todoId" \in DOMAIN p -> <<p.todoId.v>>
               [] OTHER -> <<>>]


\* The messages execAsync rejects with: the shell could not be spawned, or
\* open ended with a non-zero code.  exec is given no timeout.
ExecCauses == {"spawn /bin/sh ENOENT", "Command failed: open"}

\* What execute throws for the error execAsync rejected with
ExecuteError(cause) == PlainError("URL scheme execution failed: " \o cause)

\* An execute that swallows the rejection of execAsync and goes on to wait
UrlOpen_swallowed ==
    /\ pc = "open"
    /\ trace' = Append(trace, "open")
    /\ pc' = "settle"
    /\ \/ pending' = Append(pending, Command(op, params))
       \/ UNCHANGED pending
    /\ UNCHANGED <<host, op, params, result, seen, dateVars, encVars, batchVars, chanVars>>

\* URLSchemeHandler.execute, first half: await execAsync(`open "${url}"`).
\* The host has the command once the process is accepted.
UrlOpen ==
    /\ pc = "open"
    /\ trace' = Append(trace, "open")
    /\ \/ /\ pending' = Append(pending, Command(op, params))
          /\ pc' = "settle"
          /\ UNCHANGED result
       \/ /\ \E cause \in ExecCauses : Throw(ExecuteError(cause), Message(op))
          /\ UNCHANGED pending
    /\ UNCHANGED <<host, op, params, seen, dateVars, encVars, batchVars, chanVars>>

\* A URLSchemeHandler.execute that does not wait for the settle delay
UrlSettle_skipped ==
    /\ pc = "settle"
    /\ pc' = IF op = "createTodo" THEN "searchDelay" ELSE "return"
    /\ UNCHANGED <<host, op, params, trace, result, pending, seen, dateVars, encVars, batchVars, chanVars>>

\* URLSchemeHandler.execute, second half: the delay delays.urlScheme elapses
UrlSettle ==
    /\ pc = "settle"
    /\ trace' = Append(trace, "settle")
    /\ pc' = IF op = "createTodo" THEN "searchDelay" ELSE "return"
    /\ UNCHANGED <<host, op, params, result, pending, seen, dateVars, encVars, batchVars, chanVars>>

\* The success result of updateTodo, completeTodos, uncompleteTodos and
\* addChecklistItems
UrlReturn ==
    /\ pc = "return"
    /\ Return(CASE op \in {"completeTodos", "uncompleteTodos"} ->
                      Returned(TRUE, "", Len(params.ids), <<>>)
                [] op = "addChecklistItems" ->
                      Returned(TRUE, "", Len(params.items.v), <<>>)
                [] OTHER -> Returned(TRUE, "", 0, <<>>))
    /\ UNCHANGED <<host, op, params, trace, pending, seen, dateVars, encVars, batchVars, chanVars>>

\* createTodo: the delay delays.todoSearch elapses
CreateSearchDelay ==
    /\ pc = "searchDelay"
    /\ trace' = Append(trace, "delay:todoSearch")
    /\ pc' = "narrow"
    /\ UNCHANGED <<host, op, params, result, pending, seen, dateVars, encVars, batchVars, chanVars>>

\* What a listTodos call inside createTodo may throw: listTodos wraps what is
\* no Things3Error, and createTodo passes a Things3Error on.
SearchErrors == {Caught(e, Message("listTodos")) : e \in EnsureErrors \cup ScriptErrors}

\* createTodo: the narrow search and the exact-title filter; the first match
\* is returned
CreateNarrowSearch ==
    /\ pc = "narrow"
    /\ trace' = Append(trace, "script:narrow")
    /\ \/ /\ seen' = [seen EXCEPT !.n = 1, !.narrowHost = host]
          /\ IF Len(NarrowMatches(host, params.title.v)) > 0
             THEN Return(Returned(TRUE, NarrowMatches(host, params.title.v)[1].id, 0, <<>>))
             ELSE pc' = "longDelay" /\ UNCHANGED result
       \/ /\ \E e \in SearchErrors : Throw(e, Message(op))
          /\ UNCHANGED seen
    /\ UNCHANGED <<host, op, params, pending, dateVars, encVars, batchVars, chanVars>>

\* A createTodo that issues the create again when the narrow search found nothing
CreateLongDelay_reissue ==
    /\ pc = "longDelay"
    /\ trace' = Append(trace, "delay:1000")
    /\ pc' = IF Len(SelectSeq(trace, LAMBDA e : e = "open")) < 2 THEN "open" ELSE "fallback"
    /\ UNCHANGED <<host, op, params, result, pending, seen, dateVars, encVars, batchVars, chanVars>>

\* createTodo: a second passes before the fallback search
CreateLongDelay ==
    /\ pc = "longDelay"
    /\ trace' = Append(trace, "delay:1000")
    /\ pc' = "fallback"
    /\ UNCHANGED <<host, op, params, result, pending, seen, dateVars, encVars, batchVars, chanVars>>

\* A createTodo that fails when neither search finds the to-do
CreateFallbackSearch_notFound ==
    /\ pc = "fallback"
    /\ trace' = Append(trace, "script:fallback")
    /\ seen' = [seen EXCEPT !.n = 2, !.fallbackHost = host]
    /\ IF Len(FallbackMatches(host, params.title.v)) > 0
       THEN Return(Returned(TRUE, FallbackMatches(host, params.title.v)[1].id, 0, <<>>))
       ELSE Throw(Things3Error("NOT_FOUND", "Failed to find created TODO", ""), Message(op))
    /\ UNCHANGED <<host, op, params, pending, dateVars, encVars, batchVars, chanVars>>

\* createTodo: the fallback search; the first exact title is returned, and
\* 'unknown' when there is none
CreateFallbackSearch ==
    /\ pc = "fallback"
    /\ trace' = Append(trace, "script:fallback")
    /\ \/ /\ seen' = [seen EXCEPT !.n = 2, !.fallbackHost = host]
          /\ IF Len(FallbackMatches(host, params.title.v)) > 0
             THEN Return(Returned(TRUE, FallbackMatches(host, params.title.v)[1].id, 0, <<>>))
             ELSE Return(Returned(TRUE, "unknown", 0, <<>>))
       \/ /\ \E e \in SearchErrors : Throw(e, Message(op))
          /\ UNCHANGED seen
    /\ UNCHANGED <<host, op, params, pending, dateVars, encVars, batchVars, chanVars>>

\* The to-dos left when the script of templates.deleteTodos has run
Deleted(todos, ids) ==
    SelectSeq(todos, LAMBDA todo : \A i \in 1..Len(ids) : ids[i] # todo.id)

\* listTodos, getTodo and deleteTodos: the one script the operation runs
RunScript ==
    /\ pc = "script"
    /\ trace' = Append(trace, "script")
    /\ \/ /\ op = "listTodos"
          /\ Return(Returned(TRUE, "", Len(Tools_listTodos(host, params)),
                             [i \in 1..Len(Tools_listTodos(host, params)) |->
                                 Tools_listTodos(host, params)[i].id]))
          /\ UNCHANGED host
       \/ /\ op = "getTodo"
          /\ IF params.id.v \in Ids(host)
             THEN pc' = "db" /\ UNCHANGED result
             ELSE Return(Returned(TRUE, "null", 0, <<>>))
          /\ UNCHANGED host
       \/ /\ op = "deleteTodos"
          /\ host' = Deleted(host, params.ids)
          /\ Return(Returned(Len(host) - Len(Deleted(host, params.ids)) > 0, "",
                             Len(host) - Len(Deleted(host, params.ids)), <<>>))
       \/ /\ \E e \in ScriptErrors : Throw(e, Message(op))
          /\ UNCHANGED host
    /\ UNCHANGED <<op, params, pending, seen, dateVars, encVars, batchVars, chanVars>>

\* How a queryDatabase call ends: resolved with rows, or rejected because of
\* the timer, a non-zero exit code or a spawn failure
QueryOutcomes ==
    {[settled |-> "resolved", rows |-> <<>>], [settled |-> "resolved", rows |-> <<"c1">>],
     [settled |-> "rejected", rows |-> <<"SQLite query timed out after 10s">>],
     [settled |-> "rejected", rows |-> <<"sqlite3 exited with code">>],
     [settled |-> "rejected", rows |-> <<"Failed to spawn sqlite3">>]}

\* getChecklistItems: the rows of the query; a rejected query is caught,
\* logged and gives no items
getChecklistItems(outcome) ==
    IF outcome.settled = "rejected" THEN <<>> ELSE outcome.rows

\* getTodo: the checklist items come from the store
DbQuery ==
    /\ pc = "db"
    /\ \E outcome \in QueryOutcomes :
          /\ trace' = Append(trace, IF outcome.settled = "rejected" THEN "db:failed" ELSE "db")
          /\ Return(Returned(TRUE, params.id.v, Len(getChecklistItems(outcome)),
                            getChecklistItems(outcome)))
    /\ UNCHANGED <<host, op, params, pending, seen, dateVars, encVars, batchVars, chanVars>>

\* The host's to-dos once it has carried out a command that changes them
Applied(todos, cmd) ==
    [i \in 1..Len(todos) |->
        IF \E j \in 1..Len(cmd.ids) : cmd.ids[j] = todos[i].id
        THEN CASE cmd.kind = "completeTodos"   -> [todos[i] EXCEPT !.status = "completed"]
               [] cmd.kind = "uncompleteTodos" -> [todos[i] EXCEPT !.status = "open"]
               [] cmd.kind = "updateTodo" /\ cmd.title # <<>> ->
                                                  [todos[i] EXCEPT !.title = cmd.title]
               [] OTHER -> todos[i]
        ELSE todos[i]]

NewTodo(cmd) == [Todo(cmd.title, <<>>, "open", cmd.list) EXCEPT !.id = "new"]

\* The host carries out an accepted command, at a time of its own; a new
\* to-do comes first or last in its listing.
HostApply ==
    /\ pending # <<>>
    /\ pending' = Tail(pending)
    /\ IF Head(pending).kind = "createTodo"
       THEN host' \in {<<NewTodo(Head(pending))>> \o host, Append(host, NewTodo(Head(pending)))}
       ELSE host' = Applied(host, Head(pending))
    /\ UNCHANGED <<op, pc, params, trace, result, seen, dateVars, encVars, batchVars, chanVars>>

Next ==
    \/ Invoke
    \/ Ensure
    \/ UrlOpen
    \/ UrlSettle
    \/ UrlReturn
    \/ CreateSearchDelay
    \/ CreateNarrowSearch
    \/ CreateLongDelay
    \/ CreateFallbackSearch
    \/ RunScript
    \/ DbQuery
    \/ HostApply

Spec == Init /\ [][Next]_vars


-----------------------------------------------------------------------------
(* Claims about createTodo and the host calls of the operations.            *)

\* The steps of a createTodo that runs to its end
CreateOrder ==
    <<"open", "settle", "delay:todoSearch", "script:narrow", "delay:1000", "script:fallback">>

IsPrefix(s, t) == Len(s) <= Len(t) /\ \A i \in 1..Len(s) : s[i] = t[i]

Occurs(e) == \E i \in 1..Len(trace) : trace[i] = e

Creating == op = "createTodo"

\* C1: the steps of createTodo happen in the order activation, settle delay,
\* search delay, narrow search, longer delay, fallback search; the longer
\* delay and the fallback search happen only when the narrow search gave no
\* exact title; the call ends at the first search that gives a match; no
\* search starts before the settle delay has elapsed.
C1_CreateStepOrder ==
    Creating =>
        /\ IsPrefix(trace, CreateOrder)
        /\ Occurs("delay:1000") =>
              seen.n >= 1 /\ NarrowMatches(seen.narrowHost, params.title.v) = <<>>
        /\ (seen.n >= 1 /\ NarrowMatches(seen.narrowHost, params.title.v) # <<>>) =>
              pc = "done" /\ result.kind = "returned" /\ Len(trace) = 4
        /\ (seen.n = 2 /\ FallbackMatches(seen.fallbackHost, params.title.v) # <<>>) =>
              pc = "done" /\ result.kind = "returned"

\* A createTodo whose narrow search found nothing and whose fallback search
\* found the new to-do
C1_FoundByFallback ==
    /\ Creating
    /\ pc = "done"
    /\ trace = CreateOrder
    /\ result.id = "new"

\* The open to-dos of todos that have exactly the title, in the host's order
ExactOpen(todos, title) ==
    SelectSeq(todos, LAMBDA todo : todo.status = "open" /\ todo.title = title)

\* C2: when the host holds an open to-do with exactly the requested title at
\* the time of the narrow search, createTodo returns success with the id of
\* the first such to-do in the host's order, however many other open to-dos
\* hold the title as a part of theirs.
C2_FirstExactReturned ==
    (Creating /\ seen.n >= 1 /\ ExactOpen(seen.narrowHost, params.title.v) # <<>>) =>
        /\ pc = "done"
        /\ result = Returned(TRUE, ExactOpen(seen.narrowHost, params.title.v)[1].id, 0, <<>>)

\* C3: when the create was accepted and both searches ran and neither gave an
\* open to-do with exactly the requested title, createTodo returns success
\* with the id 'unknown': no error, no success:false.
C3_UnknownWhenNotFound ==
    (/\ Creating
     /\ pc = "done"
     /\ seen.n = 2
     /\ NarrowMatches(seen.narrowHost, params.title.v) = <<>>
     /\ FallbackMatches(seen.fallbackHost, params.title.v) = <<>>) =>
        result = Returned(TRUE, "unknown", 0, <<>>)

\* A createTodo into a project: the host made the to-do, the narrow search was
\* too early, and the fallback search does not see it
C3_CreatedButUnknown ==
    /\ Creating
    /\ pc = "done"
    /\ pending = <<>>
    /\ "new" \in Ids(seen.fallbackHost)
    /\ "new" \notin Ids(seen.narrowHost)
    /\ result.id = "unknown"

\* C4: one execution issues its activation once and never again, whatever
\* the searches return; only the search is repeated, at most twice (narrow,
\* then fallback); no operation issues a host call of one kind twice.
C4_NoReissue ==
    /\ \A i, j \in 1..Len(trace) : trace[i] = trace[j] => i = j
    /\ Len(pending) <= 1
    /\ (op \in UrlOperations /\ result.kind = "returned") => Occurs("open")
    /\ (op \notin UrlOperations) => ~Occurs("open")

\* A createTodo that ran both searches and returned
C4_BothSearchesRan ==
    /\ Creating
    /\ result.kind = "returned"
    /\ seen.n = 2
    /\ Len(SelectSeq(trace, LAMBDA e : e = "open")) = 1
    /\ Len(SelectSeq(trace, LAMBDA e : e \in {"script:narrow", "script:fallback"})) = 2

\* C5: the fallback search is broader than the narrow one: every open to-do
\* with exactly the requested title that the narrow search can return is
\* within the scope of the fallback search.
C5_FallbackScopeCoversNarrow ==
    (Creating /\ pc = "fallback") =>
        \A i \in 1..Len(host) :
            (/\ host[i].title = params.title.v
             /\ ScriptSelects(host[i], Get(NarrowParams(params.title.v), "filter"),
                              Str("open"), Text(params.title.v)))
            => ScriptSelects(host[i], Get(FallbackParams, "filter"), Str("open"), Undef)


-----------------------------------------------------------------------------
(* Tag scripts: templates.addTagsToItems and templates.removeTagsFromItems. *)
(* A text is a sequence of characters; the tag names of an item are a text  *)
(* or missing value.                                                        *)

MissingValue == [t |-> "missing value", v |-> <<>>]

RECURSIVE TextItems(_, _)
\* text items of s with the text item delimiter ","; cur is the item begun
TextItems(s, cur) ==
    IF Len(s) = 0 THEN <<cur>>
    ELSE IF Head(s) = "," THEN <<cur>> \o TextItems(Tail(s), <<>>)
    ELSE TextItems(Tail(s), Append(cur, Head(s)))

RECURSIVE TrimLeft(_)
\* sed 's/^ *//'
TrimLeft(s) == IF Len(s) > 0 /\ Head(s) = " " THEN TrimLeft(Tail(s)) ELSE s

RECURSIVE TrimRight(_)
\* sed 's/ *$//'
TrimRight(s) ==
    IF Len(s) > 0 /\ s[Len(s)] = " " THEN TrimRight(SubSeq(s, 1, Len(s) - 1)) ELSE s

Trim(s) == TrimRight(TrimLeft(s))

RECURSIVE JoinText(_, _)
\* a list of texts as string, with the text item delimiter sep
JoinText(items, sep) ==
    IF Len(items) = 0 THEN <<>>
    ELSE IF Len(items) = 1 THEN items[1]
    ELSE items[1] \o sep \o JoinText(Tail(items), sep)

\* "t is equal to tagToRemove": AppleScript compares text ignoring case
TextEqual(a, b) == LowerText(a) = LowerText(b)

TrimAll(items) == [i \in 1..Len(items) |-> Trim(items[i])]

\* The items removeTag keeps, trimmed
KeptItems(trimmed, tagToRemove) ==
    SelectSeq(trimmed, LAMBDA t : ~TextEqual(t, tagToRemove))

\* A removeTag that takes out every item that holds the tag as a part
removeTag_substring(tagList, tagToRemove) ==
    JoinText(SelectSeq(TrimAll(TextItems(tagList, <<>>)),
                       LAMBDA t : ~Contains(t, tagToRemove)),
             <<",", " ">>)

\* on removeTag(tagList, tagToRemove)
removeTag(tagList, tagToRemove) ==
    JoinText(KeptItems(TrimAll(TextItems(tagList, <<>>)), tagToRemove), <<",", " ">>)

RECURSIVE RemoveTags(_, _)
\* "set currentTags to my removeTag(currentTags, tag)" for each tag in turn
RemoveTags(currentTags, tags) ==
    IF Len(tags) = 0 THEN currentTags
    ELSE RemoveTags(removeTag(currentTags, Head(tags)), Tail(tags))

\* tags.map(escapeString).join(',')
NewTagsString(tags) == JoinText(tags, <<",">>)

\* An addTagsToItems that writes the new tags in place of the existing ones
AddedTagNames_overwrite(currentTags, tags) == NewTagsString(tags)

\* What addTagsToItems sets the tag names of an item to
AddedTagNames(currentTags, tags) ==
    IF currentTags = MissingValue \/ currentTags = Text(<<>>)
    THEN NewTagsString(tags)
    ELSE currentTags.v \o <<",">> \o NewTagsString(tags)


-----------------------------------------------------------------------------
(* SpecBatch: the batch scripts of the template library, run against a      *)
(* host item by item.  Every item of a script is one "try ... end try"; an  *)
(* item's statement fails when the item is not there, and the host may fail *)
(* any statement that changes an item.                                      *)

Item(kind, status, tags) ==
    [kind |-> kind, status |-> status, tags |-> tags, list |-> "Inbox",
     when |-> "none", due |-> "none"]

DeleteOps == {"deleteTodos", "deleteTags", "deleteAreas", "deleteProjects"}
StatusOps == {"completeTodos", "uncompleteTodos"}
TagOps    == {"addTagsToItems", "removeTagsFromItems"}
BatchOps  == DeleteOps \cup StatusOps \cup TagOps \cup {"bulkMoveTodos", "bulkUpdateDates"}

\* The class of the element a delete script looks up
DeleteKind(operation) ==
    CASE operation = "deleteTodos"    -> "todo"
      [] operation = "deleteTags"     -> "tag"
      [] operation = "deleteAreas"    -> "area"
      [] OTHER                        -> "project"

\* Sequences over S of lengths lo..hi
SeqsOf(S, lo, hi) == UNION {[1..n -> S] : n \in lo..hi}

MaxBatchIds == 3
MaxTagCount == 2
MaxTagArgs  == 2

BatchIdLists == SeqsOf({"1", "2", "none"}, 1, MaxBatchIds)
TagIdLists   == {<<"1">>, <<"none", "1">>, <<"1", "2">>}

\* The tag names an item may hold: none, or names joined as the host or a
\* client wrote them
TagNames == {<<"a">>, <<"b">>, <<"a", "b">>, <<"A">>}
TagValues ==
    {MissingValue, Text(<<>>), Text(<<" ", "a", " ", ",", "b">>)}
    \cup {Text(JoinText(names, sep)) :
            names \in SeqsOf(TagNames, 1, MaxTagCount), sep \in {<<",">>, <<",", " ">>}}

\* The tags a tag script is generated for
TagArgs == SeqsOf({<<"a">>, <<"b">>, <<"x">>}, 0, MaxTagArgs)

DateArgs ==
    {[whenDate |-> Str("2025-12-31"), deadline |-> Null],
     [whenDate |-> Null, deadline |-> Undef],
     [whenDate |-> Undef, deadline |-> Str("2025-12-31")],
     [whenDate |-> Undef, deadline |-> Undef]}

MoveArgs ==
    {[projectId |-> Str("2"), areaId |-> Undef],
     [projectId |-> Undef, areaId |-> Str("2")],
     [projectId |-> Undef, areaId |-> Undef]}

HostsOf(operation) ==
    CASE operation \in TagOps ->
            {("1" :> Item("todo", "open", tags)) @@ ("2" :> Item("project", "open", Text(<<"b">>))) :
                tags \in TagValues}
      [] operation \in DeleteOps ->
            {("1" :> Item("todo", "open", MissingValue))
                @@ ("2" :> Item(DeleteKind(operation), "open", MissingValue))}
      [] operation = "bulkMoveTodos" ->
            {("1" :> Item("todo", "open", MissingValue)) @@ ("2" :> Item(kind, "open", MissingValue)) :
                kind \in {"project", "area"}}
      [] OTHER ->
            {("1" :> Item("todo", status, MissingValue)) @@ ("2" :> Item(kind, "open", MissingValue)) :
                status \in {"open", "completed"}, kind \in {"todo", "project"}}

ArgsOf(operation) ==
    CASE operation \in TagOps           -> TagArgs
      [] operation = "bulkUpdateDates"  -> DateArgs
      [] operation = "bulkMoveTodos"    -> MoveArgs
      [] OTHER                          -> {<<>>}

InitBatch ==
    /\ bPc = "run"
    /\ bOp \in BatchOps
    /\ bHost0 \in HostsOf(bOp)
    /\ bHost = bHost0
    /\ bIds \in (IF bOp \in TagOps THEN TagIdLists ELSE BatchIdLists)
    /\ bArg \in ArgsOf(bOp)
    /\ bIdx = 1
    /\ bLog = <<>>
    /\ bWrites = <<>>
    /\ bCount = 0
    /\ bResult = <<>>
    /\ DateOff
    /\ EncOff
    /\ host = <<>> /\ op = "none" /\ pc = "off" /\ params = <<>> /\ trace = <<>>
    /\ result = <<>> /\ pending = <<>> /\ seen = <<>>
    /\ ChanOff

\* "to do id X", "project id X", ...: the element is there
Found(id, kind) == id \in DOMAIN bHost /\ bHost[id].kind = kind

\* The script is at an item
AtItem == bPc = "run" /\ bIdx <= Len(bIds)

\* An item's try block ends: with its statements done, with none needed, or
\* with an error that the block swallows
Attempted(outcome, counted) ==
    /\ bLog' = Append(bLog, [id |-> bIds[bIdx], outcome |-> outcome])
    /\ bCount' = bCount + (IF counted THEN 1 ELSE 0)
    /\ bIdx' = bIdx + 1
    /\ UNCHANGED <<bPc, bOp, bHost0, bIds, bArg, bResult, dateVars, encVars, opVars, chanVars>>

Swallowed == Attempted("failed", FALSE) /\ UNCHANGED <<bHost, bWrites>>

\* deleteTodos, deleteTags, deleteAreas, deleteProjects: one item
DeleteStep ==
    /\ AtItem
    /\ bOp \in DeleteOps
    /\ \/ /\ Found(bIds[bIdx], DeleteKind(bOp))
          /\ bHost' = [bHost EXCEPT ![bIds[bIdx]].kind = "gone"]
          /\ Attempted("applied", TRUE)
          /\ UNCHANGED bWrites
       \/ Swallowed

\* A completeTodos / uncompleteTodos whose script ends at the first error
StatusStep_abort ==
    /\ AtItem
    /\ bOp \in StatusOps
    /\ IF Found(bIds[bIdx], "todo")
       THEN /\ bHost' = [bHost EXCEPT ![bIds[bIdx]].status =
                            IF bOp = "completeTodos" THEN "completed" ELSE "open"]
            /\ Attempted("applied", TRUE)
            /\ UNCHANGED bWrites
       ELSE /\ bLog' = Append(bLog, [id |-> bIds[bIdx], outcome |-> "failed"])
            /\ bIdx' = Len(bIds) + 1
            /\ UNCHANGED <<bPc, bOp, bHost0, bHost, bIds, bArg, bWrites, bCount, bResult,
                           dateVars, encVars, opVars, chanVars>>

\* completeTodos, uncompleteTodos: one item
StatusStep ==
    /\ AtItem
    /\ bOp \in StatusOps
    /\ \/ /\ Found(bIds[bIdx], "todo")
          /\ IF bHost[bIds[bIdx]].status = (IF bOp = "completeTodos" THEN "open" ELSE "completed")
             THEN /\ bHost' = [bHost EXCEPT ![bIds[bIdx]].status =
                                  IF bOp = "completeTodos" THEN "completed" ELSE "open"]
                  /\ Attempted("applied", TRUE)
             ELSE /\ Attempted("unchanged", FALSE)
                  /\ UNCHANGED bHost
          /\ UNCHANGED bWrites
       \/ Swallowed

\* The list bulkMoveTodos moves to, and whether its lookup succeeds
MoveTarget(arg) ==
    IF ~Falsy(arg.projectId) THEN [kind |-> "project", id |-> arg.projectId.v]
    ELSE IF ~Falsy(arg.areaId) THEN [kind |-> "area", id |-> arg.areaId.v]
    ELSE [kind |-> "inbox", id |-> "Inbox"]

\* bulkMoveTodos: one item
MoveStep ==
    /\ AtItem
    /\ bOp = "bulkMoveTodos"
    /\ \/ /\ Found(bIds[bIdx], "todo")
          /\ MoveTarget(bArg).kind = "inbox" \/ Found(MoveTarget(bArg).id, MoveTarget(bArg).kind)
          /\ bHost' = [bHost EXCEPT ![bIds[bIdx]].list = MoveTarget(bArg).id]
          /\ Attempted("applied", TRUE)
          /\ UNCHANGED bWrites
       \/ Swallowed

\* The value a date statement of bulkUpdateDates sets
DateSet(x) == IF x = Null THEN "none" ELSE x.v

\* bulkUpdateDates: one item; the statement for the deadline may fail after
\* the one for the when date was carried out
DatesStep ==
    /\ AtItem
    /\ bOp = "bulkUpdateDates"
    /\ \/ /\ Found(bIds[bIdx], "todo")
          /\ bHost' = [bHost EXCEPT
                ![bIds[bIdx]].when = IF bArg.whenDate = Undef THEN @ ELSE DateSet(bArg.whenDate),
                ![bIds[bIdx]].due  = IF bArg.deadline = Undef THEN @ ELSE DateSet(bArg.deadline)]
          /\ Attempted("applied", TRUE)
          /\ UNCHANGED bWrites
       \/ /\ Found(bIds[bIdx], "todo")
          /\ bArg.whenDate # Undef /\ bArg.deadline # Undef
          /\ bHost' = [bHost EXCEPT ![bIds[bIdx]].when = DateSet(bArg.whenDate)]
          /\ Attempted("failed", FALSE)
          /\ UNCHANGED bWrites
       \/ Swallowed

\* "set tag names of targetItem to value"
WriteTags(value) ==
    /\ bHost' = [bHost EXCEPT ![bIds[bIdx]].tags = Text(value)]
    /\ bWrites' = Append(bWrites, [id |-> bIds[bIdx], value |-> value])

\* The item is a to-do or, in the on error branch, a project
TagItemFound == Found(bIds[bIdx], "todo") \/ Found(bIds[bIdx], "project")

\* addTagsToItems: one item
AddTagsStep ==
    /\ AtItem
    /\ bOp = "addTagsToItems"
    /\ \/ /\ TagItemFound
          /\ WriteTags(AddedTagNames(bHost[bIds[bIdx]].tags, bArg))
          /\ Attempted("applied", TRUE)
       \/ Swallowed

\* The tag names removeTagsFromItems arrives at for an item that has some
Remaining(currentTags, tags) == RemoveTags(currentTags.v, tags)

\* removeTagsFromItems: one item
RemoveTagsStep ==
    /\ AtItem
    /\ bOp = "removeTagsFromItems"
    /\ \/ /\ TagItemFound
          /\ IF /\ bHost[bIds[bIdx]].tags # MissingValue
                /\ bHost[bIds[bIdx]].tags # Text(<<>>)
                /\ ~TextEqual(Remaining(bHost[bIds[bIdx]].tags, bArg), bHost[bIds[bIdx]].tags.v)
             THEN /\ WriteTags(Remaining(bHost[bIds[bIdx]].tags, bArg))
                  /\ Attempted("applied", TRUE)
             ELSE /\ Attempted("unchanged", FALSE)
                  /\ UNCHANGED <<bHost, bWrites>>
       \/ Swallowed

\* A deleteTodos result whose success says that every id was deleted
DeleteResult_allOrNothing(count, ids) ==
    [success |-> count = Len(ids), deletedCount |-> count]

\* TodosTools.deleteTodos: parseInt(result.trim()) || 0, success: count > 0
DeleteResult(count, ids) == [success |-> count > 0, deletedCount |-> count]

\* "return count", and what the caller makes of it
ScriptReturn ==
    /\ bPc = "run"
    /\ bIdx > Len(bIds)
    /\ bPc' = "returned"
    /\ bResult' = IF bOp = "deleteTodos" THEN DeleteResult(bCount, bIds)
                  ELSE [count |-> bCount]
    /\ UNCHANGED <<bOp, bHost0, bHost, bIds, bArg, bIdx, bLog, bWrites, bCount,
                   dateVars, encVars, opVars, chanVars>>

NextBatch ==
    \/ DeleteStep
    \/ StatusStep
    \/ MoveStep
    \/ DatesStep
    \/ AddTagsStep
    \/ RemoveTagsStep
    \/ ScriptReturn

SpecBatch == InitBatch /\ [][NextBatch]_vars


-----------------------------------------------------------------------------
(* Claims about the batch scripts (checked under SpecBatch).                *)

\* The tags a tag string holds: its comma-separated elements, trimmed
Elements(s) == IF s = <<>> THEN <<>> ELSE TrimAll(TextItems(s, <<>>))

\* t is one of the tags, as the host compares text (ignoring case)
OneOf(t, tags) == \E i \in 1..Len(tags) : TextEqual(t, tags[i])

\* The tag names an item held when the script started
OriginalTags(id) == bHost0[id].tags

HadNoTags(id) == OriginalTags(id) \in {MissingValue, Text(<<>>)}

Applied_(k) == bLog[k].outcome = "applied"

C13_NoWriteWhenNothingRemoved ==
    bOp = "removeTagsFromItems" =>
        \A k \in 1..Len(bLog) :
            (/\ bLog[k].id \in DOMAIN bHost0
             /\ \/ HadNoTags(bLog[k].id)
                \/ \A j \in 1..Len(Elements(OriginalTags(bLog[k].id).v)) :
                      ~OneOf(Elements(OriginalTags(bLog[k].id).v)[j], bArg))
            => /\ ~Applied_(k)
               /\ \A i \in 1..Len(bWrites) : bWrites[i].id # bLog[k].id

C15_DeletedCount ==
    (bOp = "deleteTodos" /\ bPc = "returned") =>
        /\ bResult.deletedCount
              = Cardinality({id \in DOMAIN bHost0 :
                                bHost0[id].kind = "todo" /\ bHost[id].kind = "gone"})
        /\ bResult.success <=> bResult.deletedCount > 0
        /\ Len(bLog) = Len(bIds)
        /\ \A k \in 1..Len(bLog) : bLog[k].id \notin DOMAIN bHost0 => ~Applied_(k)

\* Three ids of which one is not on the host: two deleted, success
C15_TwoOfThree ==
    /\ bOp = "deleteTodos"
    /\ bPc = "returned"
    /\ bIds = <<"1", "none", "2">>
    /\ bResult = [success |-> TRUE, deletedCount |-> 2]

-----------------------------------------------------------------------------
(* Claims about the counts the status operations report (checked under     *)
(* Spec).                                                                   *)

\* The positions of ids whose to-do the host holds
OnHost(ids, todos) == {i \in 1..Len(ids) : ids[i] \in Ids(todos)}

\* C17: the completedCount of completeTodos and the uncompletedCount of
\* uncompleteTodos are the number of the given ids on which the host applied
\* the change, not a figure taken from the number of ids submitted.
C17_CountIsApplied ==
    (/\ op \in {"completeTodos", "uncompleteTodos"}
     /\ pc = "done"
     /\ result.kind = "returned"
     /\ pending = <<>>)
    => result.count = Cardinality(OnHost(params.ids, host))


-----------------------------------------------------------------------------
(* SpecAuth: every URL and document URLSchemeHandler builds, with and       *)
(* without an authorization token in the environment.                       *)

\* One update item per id with the same attributes (ids.map)
UpdateItems(type, ids, attributes) ==
    [i \in 1..Len(ids) |->
        [type |-> type, id |-> ids[i], operation |-> "update", attributes |-> attributes]]

\* completeTodos, uncompleteTodos, cancelTodos
Url_statusTodos_url(ids, key, value, authToken) ==
    buildJsonUrl(UpdateItems("to-do", ids, WithAuth(key :> Bool(value), authToken)), authToken)

\* URLSchemeHandler.createProject: the project item (a create has no id
\* and no operation)
Url_createProject_url(p, authToken, now, tz) ==
    buildJsonUrl(<<[type |-> "project", id |-> Undef, operation |-> Undef,
                    attributes |-> RemoveUndefined(WithAuth(
                        ("title" :> Get(p, "title")) @@
                        ("notes" :> Get(p, "notes")) @@
                        ("when" :> formatDateForUrl(Get(p, "whenDate"), now, tz)) @@
                        ("deadline" :> formatDateForUrl(Get(p, "deadline"), now, tz)) @@
                        ("tags" :> Get(p, "tags")) @@
                        ("area" :> Get(p, "area")) @@
                        ("area-id" :> Get(p, "areaId")) @@
                        ("items" :> IF Get(p, "headings") # Undef /\ Len(p.headings.v) > 0
                                    THEN Arr([i \in 1..Len(p.headings.v) |->
                                                [type |-> "heading",
                                                 attributes |-> [title |-> p.headings.v[i]]]])
                                    ELSE Undef),
                        authToken))]>>,
                 authToken)

Url_completeProject_url(id, authToken) ==
    buildJsonUrl(UpdateItems("project", <<id>>, WithAuth("completed" :> Bool(TRUE), authToken)),
                 authToken)

\* listId = projectId || areaId || ''
Url_bulkMoveTodos_url(todoIds, projectId, areaId, authToken) ==
    buildJsonUrl(UpdateItems("to-do", todoIds,
                             WithAuth("list-id" :> Or(Or(projectId, areaId), Str("")), authToken)),
                 authToken)

Url_addChecklistItems_url(todoId, items, authToken) ==
    buildJsonUrl(UpdateItems("to-do", <<todoId>>,
                             WithAuth("append-checklist-items" :> Str(Join(items, "\n")),
                                      authToken)),
                 authToken)

Url_addTagsToItems_url(itemIds, tags, authToken) ==
    buildJsonUrl(UpdateItems("to-do", itemIds, WithAuth("add-tags" :> Arr(tags), authToken)),
                 authToken)

\* URLSchemeHandler.removeTagsFromItems: clears all tags
Url_removeTagsFromItems_url(itemIds, authToken) ==
    buildJsonUrl(UpdateItems("to-do", itemIds, WithAuth("tags" :> Arr(<<>>), authToken)),
                 authToken)

\* The operations of URLSchemeHandler that build a document, and the one
\* that builds an add URL
DocumentOperations ==
    {"updateTodo", "completeTodos", "uncompleteTodos", "cancelTodos", "createProject",
     "updateProject", "completeProject", "bulkMoveTodos", "bulkUpdateDates",
     "addChecklistItems", "addTagsToItems", "removeTagsFromItems"}

\* The id lists the handlers are called with
AuthIdLists == {[i \in 1..n |-> ToString(i)] : n \in 1..MaxBulkIds}

\* The arguments each handler is called with
AuthArgs(operation) ==
    CASE operation = "createTodo" ->
            {[title |-> Str("T")],
             [title |-> Str("T"), projectId |-> Str("P"), areaId |-> Str("A")],
             [title |-> Str("T"), whenDate |-> EncToday, tags |-> Arr(<<"a", "b">>)],
             [title |-> Str("T"), areaId |-> Str("A")]}
      [] operation = "createProject" ->
            {[title |-> Str("T")],
             [title |-> Str("T"), whenDate |-> EncToday, tags |-> Arr(<<"a", "b">>)],
             [title |-> Str("T"), areaId |-> Str("A"), headings |-> Arr(<<"h1", "h2">>)]}
      [] operation \in {"updateTodo", "updateProject"} ->
            {<<>>, [title |-> Str("T")], [whenDate |-> Null, notes |-> Str("N")]}
      [] operation = "bulkMoveTodos" ->
            {[ids |-> ids, projectId |-> pid] : ids \in AuthIdLists, pid \in {Undef, Str("P")}}
      [] operation = "bulkUpdateDates" ->
            {[ids |-> ids, whenDate |-> w] : ids \in AuthIdLists, w \in {Undef, Null, EncOther}}
      [] operation = "addChecklistItems" ->
            {[items |-> items] : items \in {<<>>, <<"c1">>, <<"c1", "c2">>}}
      [] operation = "addTagsToItems" ->
            {[ids |-> ids, tags |-> tags] : ids \in AuthIdLists, tags \in {<<"a">>, <<"a", "b">>}}
      [] operation = "completeProject" -> {<<>>}
      [] OTHER -> {[ids |-> ids] : ids \in AuthIdLists}

InitAuth ==
    /\ ePc = "idle"
    /\ eOp \in DocumentOperations \cup {"createTodo"}
    /\ eIntent \in AuthArgs(eOp)
    /\ eToken \in Tokens
    /\ eDoc = <<>>
    /\ dPc = "off" /\ dIn = Undef /\ dNow = BaseDay * 24 + 12 /\ dTz = 2
    /\ dOut = Undef /\ dKeys = {} /\ dIn2 = Undef /\ dOut2 = Undef
    /\ host = <<>> /\ op = "none" /\ pc = "off" /\ params = <<>> /\ trace = <<>>
    /\ result = <<>> /\ pending = <<>> /\ seen = <<>>
    /\ BatchOff
    /\ ChanOff

Built(url) ==
    /\ eDoc' = url
    /\ ePc' = "done"
    /\ UNCHANGED <<eOp, eIntent, eToken, dateVars, opVars, batchVars, chanVars>>

\* createTodo builds its add URL
BuildAddUrl ==
    /\ ePc = "idle" /\ eOp = "createTodo"
    /\ Built(Url_createTodo_url(eIntent, eToken, dNow, dTz))

\* updateTodo, updateProject, createProject, completeProject,
\* addChecklistItems: a document of one item
BuildOneItem ==
    /\ ePc = "idle"
    /\ eOp \in {"updateTodo", "updateProject", "createProject", "completeProject",
                "addChecklistItems"}
    /\ Built(CASE eOp = "updateTodo" -> Url_updateTodo_url("id1", eIntent, eToken, dNow, dTz)
               [] eOp = "updateProject" ->
                      Url_updateProject_url("id1", eIntent, eToken, dNow, dTz)
               [] eOp = "createProject" -> Url_createProject_url(eIntent, eToken, dNow, dTz)
               [] eOp = "completeProject" -> Url_completeProject_url("id1", eToken)
               [] OTHER -> Url_addChecklistItems_url("id1", eIntent.items, eToken))

\* completeTodos, uncompleteTodos, cancelTodos: one item per id
BuildStatusItems ==
    /\ ePc = "idle"
    /\ eOp \in {"completeTodos", "uncompleteTodos", "cancelTodos"}
    /\ Built(Url_statusTodos_url(eIntent.ids,
                                 IF eOp = "cancelTodos" THEN "canceled" ELSE "completed",
                                 eOp # "uncompleteTodos", eToken))

\* bulkMoveTodos, bulkUpdateDates, addTagsToItems, removeTagsFromItems: one
\* item per id
BuildBulkItems ==
    /\ ePc = "idle"
    /\ eOp \in {"bulkMoveTodos", "bulkUpdateDates", "addTagsToItems", "removeTagsFromItems"}
    /\ Built(CASE eOp = "bulkMoveTodos" ->
                      Url_bulkMoveTodos_url(eIntent.ids, eIntent.projectId, Undef, eToken)
               [] eOp = "bulkUpdateDates" ->
                      Url_bulkUpdateDates_url(eIntent.ids, eIntent.whenDate, Undef, eToken,
                                              dNow, dTz)
               [] eOp = "addTagsToItems" ->
                      Url_addTagsToItems_url(eIntent.ids, eIntent.tags, eToken)
               [] OTHER -> Url_removeTagsFromItems_url(eIntent.ids, eToken))

NextAuth == BuildAddUrl \/ BuildOneItem \/ BuildStatusItems \/ BuildBulkItems

SpecAuth == InitAuth /\ [][NextAuth]_vars

\* The keys of the query of a URL
QueryKeys(url) == {url.query[i].k : i \in 1..Len(url.query)}

\* There is a token in the environment
TokenPresent == eToken # Undef /\ eToken # Str("")

\* C18: with a token in the environment, every item of every document
\* carries it and the add URL carries it as a parameter; without one, no
\* document and no URL has an auth-token key, and createTodo still builds
\* its add URL.
C18_TokenOnEveryItem ==
    ePc = "done" =>
        /\ (TokenPresent /\ eOp \in DocumentOperations) =>
              /\ Len(eDoc.data) >= 1
              /\ \A i \in 1..Len(eDoc.data) :
                    /\ "auth-token" \in DOMAIN eDoc.data[i].attributes
                    /\ eDoc.data[i].attributes["auth-token"] = eToken
        /\ (TokenPresent /\ eOp = "createTodo") =>
              \E i \in 1..Len(eDoc.query) :
                  eDoc.query[i] = [k |-> "auth-token", v |-> eToken.v]
        /\ (~TokenPresent) =>
              /\ "auth-token" \notin QueryKeys(eDoc)
              /\ eOp \in DocumentOperations =>
                    \A i \in 1..Len(eDoc.data) :
                        "auth-token" \notin DOMAIN eDoc.data[i].attributes
        /\ eOp = "createTodo" =>
              eDoc.operation = "add" /\ "title" \in QueryKeys(eDoc)

\* A bulk move of several to-dos with a token: each item carries it
C18_TokenOnBulkItems ==
    /\ ePc = "done"
    /\ eOp = "bulkMoveTodos"
    /\ TokenPresent
    /\ Len(eDoc.data) >= 2
    /\ \A i \in 1..Len(eDoc.data) : eDoc.data[i].attributes["auth-token"] = eToken


-----------------------------------------------------------------------------
(* SpecChannel: one call of a channel.  URLSchemeHandler.execute awaits     *)
(* exec('open "..."') and then the settle delay; queryDatabase spawns       *)
(* sqlite3 with a timer of ten seconds.  The spawned process may end with   *)
(* an exit code, fail to spawn, or never end.                               *)

ExitCodes == {0, 1}
\* What the process writes: at most MaxChunks chunks of one character
MaxChunks == 2
Chunks == {<<"r">>, <<"\n">>}

WhiteSpace == {" ", "\n", "\t"}

RECURSIVE JsTrimLeft(_)
JsTrimLeft(s) == IF Len(s) > 0 /\ Head(s) \in WhiteSpace THEN JsTrimLeft(Tail(s)) ELSE s

RECURSIVE JsTrimRight(_)
JsTrimRight(s) ==
    IF Len(s) > 0 /\ s[Len(s)] \in WhiteSpace
    THEN JsTrimRight(SubSeq(s, 1, Len(s) - 1)) ELSE s

\* String.prototype.trim
JsTrim(s) == JsTrimRight(JsTrimLeft(s))

InitChannel ==
    /\ cChan \in {"execute", "queryDatabase"}
    /\ cProc = "running"
    /\ cCode \in ExitCodes
    /\ cStdout = <<>>
    /\ cTimer = IF cChan = "queryDatabase" THEN "armed" ELSE "none"
    /\ cCall = "pending"
    /\ cValue = <<>>
    /\ cEvents = <<>>
    /\ DateOff
    /\ EncOff
    /\ BatchOff
    /\ host = <<>> /\ op = "none" /\ pc = "off" /\ params = <<>> /\ trace = <<>>
    /\ result = <<>> /\ pending = <<>> /\ seen = <<>>

\* A promise that every resolve and reject settles anew
Settle_overwrite(state, value) == cCall' = state /\ cValue' = value

\* resolve(value) / reject(error): only the first one settles the promise
Settle(state, value) ==
    IF cCall = "pending"
    THEN cCall' = state /\ cValue' = value
    ELSE UNCHANGED <<cCall, cValue>>

Happened(e) == \E i \in 1..Len(cEvents) : cEvents[i] = e

Event(e) ==
    /\ ~Happened(e)
    /\ cEvents' = Append(cEvents, e)
    /\ UNCHANGED <<cChan, cCode, cStdout, dateVars, encVars, opVars, batchVars>>

\* stdout.on('data'): stdout += data
StdoutData ==
    /\ cProc = "running"
    /\ ~Happened("error")
    /\ Len(cStdout) < MaxChunks
    /\ \E d \in Chunks : cStdout' = cStdout \o d
    /\ UNCHANGED <<cChan, cProc, cCode, cTimer, cCall, cValue, cEvents>>
    /\ UNCHANGED <<dateVars, encVars, opVars, batchVars>>

\* clearTimeout(timer)
ClearTimer == cTimer' = IF cTimer = "armed" THEN "cleared" ELSE cTimer

\* queryDatabase: the timer fires: proc.kill() and reject
QueryTimeout ==
    /\ cChan = "queryDatabase"
    /\ cTimer = "armed"
    /\ Event("timeout")
    /\ cTimer' = "fired"
    /\ cProc' = IF cProc = "running" THEN "killed" ELSE cProc
    /\ Settle("rejected", [error |-> "SQLite query timed out after 10s"])

\* queryDatabase: proc.on('close'): the process ended by itself with cCode,
\* or was killed (code null)
QueryClose ==
    /\ cChan = "queryDatabase"
    /\ cProc \in {"running", "killed"}
    /\ Event("close")
    /\ ClearTimer
    /\ cProc' = "closed"
    /\ IF cProc = "killed" \/ Happened("error") \/ cCode # 0
       THEN Settle("rejected", [error |-> "sqlite3 exited with code"])
       ELSE Settle("resolved", [value |-> JsTrim(cStdout)])

\* queryDatabase: proc.on('error'): the process could not be spawned
QuerySpawnError ==
    /\ cChan = "queryDatabase"
    /\ cProc = "running"
    /\ cEvents = <<>>
    /\ Event("error")
    /\ ClearTimer
    /\ UNCHANGED cProc
    /\ Settle("rejected", [error |-> "Failed to spawn sqlite3"])

\* The settle delay of the configuration (delays.urlScheme), in ticks
MaxDelay == 2
Delays == 0..MaxDelay

\* execute: the open process ends; exec calls back with an error for a
\* non-zero code and execute throws, or execute reads the settle delay from
\* the configuration and starts to wait
ExecuteExit ==
    /\ cChan = "execute"
    /\ cProc = "running"
    /\ Event("exit")
    /\ cProc' = "closed"
    /\ IF cCode # 0
       THEN cCall' = "rejected" /\ cValue' = ExecuteError("Command failed: open")
       ELSE /\ cCall' = "delay"
            /\ \E delay \in Delays : cValue' = [delay |-> delay, left |-> delay]
    /\ UNCHANGED cTimer

\* execute: the open process could not be spawned
ExecuteSpawnError ==
    /\ cChan = "execute"
    /\ cProc = "running"
    /\ Event("error")
    /\ cProc' = "closed"
    /\ cCall' = "rejected" /\ cValue' = ExecuteError("spawn /bin/sh ENOENT")
    /\ UNCHANGED cTimer

\* execute: time passes while the settle delay runs
ExecuteDelayTick ==
    /\ cChan = "execute"
    /\ cCall = "delay"
    /\ cValue.left > 0
    /\ cValue' = [cValue EXCEPT !.left = @ - 1]
    /\ cEvents' = Append(cEvents, "tick")
    /\ UNCHANGED <<cChan, cProc, cCode, cStdout, cTimer, cCall>>
    /\ UNCHANGED <<dateVars, encVars, opVars, batchVars>>

\* An execute that returns before the settle delay has elapsed
ExecuteSettled_early ==
    /\ cChan = "execute"
    /\ cCall = "delay"
    /\ Event("settle")
    /\ cCall' = "resolved" /\ cValue' = [value |-> <<>>]
    /\ UNCHANGED <<cProc, cTimer>>

\* execute: the settle delay has elapsed and execute returns
ExecuteSettled ==
    /\ cChan = "execute"
    /\ cCall = "delay"
    /\ cValue.left = 0
    /\ Event("settle")
    /\ cCall' = "resolved" /\ cValue' = [value |-> <<>>]
    /\ UNCHANGED <<cProc, cTimer>>

NextChannel ==
    \/ StdoutData
    \/ QueryTimeout
    \/ QueryClose
    \/ QuerySpawnError
    \/ ExecuteExit
    \/ ExecuteSpawnError
    \/ ExecuteDelayTick
    \/ ExecuteSettled

SpecChannel == InitChannel /\ [][NextChannel]_vars

\* Timers fire; a process need not end
SpecChannelFair ==
    SpecChannel /\ WF_vars(QueryTimeout) /\ WF_vars(ExecuteDelayTick)
                /\ WF_vars(ExecuteSettled)

\* C19: every call of a channel comes to an end: it completes or, when its
\* timeout elapses, its process is terminated and it fails with a timeout
\* error; no call stays pending forever when the process never exits.
C19_EveryCallSettles == <>(cCall \in {"resolved", "rejected"})


-----------------------------------------------------------------------------
(* The error of an operation whose activation call failed (under Spec)      *)

\* The operation ended with the error execute threw
ChannelFailed ==
    /\ pc = "done"
    /\ result.kind = "error"
    /\ \E cause \in ExecCauses : result.error.details = ExecuteError(cause).message

\* C20: when the activation call behind createTodo, updateTodo,
\* completeTodos, uncompleteTodos or addChecklistItems fails (spawn failure,
\* non-zero exit), the error that reaches the caller has an error kind of its
\* own: it is not the generic UNKNOWN kind that every other error gets.
C20_ChannelErrorKind ==
    ChannelFailed => result.error.type # "UNKNOWN"


\* C21: a failed channel call is never swallowed: when the activation call or
\* the checklist-store query of getTodo failed, the operation ends in an
\* error and returns no normal result.
C21_NoFailureSwallowed ==
    (pc = "done" /\ (Occurs("db:failed") \/ ChannelFailed)) => result.kind = "error"


-----------------------------------------------------------------------------
(* SpecScript: the template functions that generate an automation script.  *)
(* A script is a sequence of tokens: a piece of template text is one token, *)
(* and every character of an interpolated value and the two quotes the     *)
(* template writes around it are tokens of their own.                       *)

Quote == "\""
Backslash == "\\"

RECURSIVE escapeString(_)
\* bridge.escapeString: a backslash before every quote and backslash
escapeString(s) ==
    IF Len(s) = 0 THEN <<>>
    ELSE (IF Head(s) \in {Quote, Backslash} THEN <<Backslash, Head(s)>> ELSE <<Head(s)>>)
         \o escapeString(Tail(s))

\* "${value}" in a template
Literal(value) == <<Quote>> \o value \o <<Quote>>

\* script += ... under a condition
When(cond, tokens) == IF cond THEN tokens ELSE <<>>

\* tags.map(tag => bridge.escapeString(tag)).join(',')
TagList(tags) == JoinText([i \in 1..Len(tags) |-> escapeString(tags[i])], <<",">>)

Script_createTodo(a) ==
    <<"tell application Things3\n", "set newTodo to make new to do with properties {name:">>
    \o Literal(escapeString(a.title.v))
    \o When(~Falsy(a.notes), <<", notes:">> \o Literal(escapeString(a.notes.v)))
    \o <<"}\n">>
    \o When(~Falsy(a.whenDate), <<"schedule newTodo for date ">> \o Literal(a.whenDate.v))
    \o When(~Falsy(a.deadline), <<"set due date of newTodo to date ">> \o Literal(a.deadline.v))
    \o When(~Falsy(a.tags) /\ Len(a.tags.v) > 0,
            <<"set tag names of newTodo to ">> \o Literal(TagList(a.tags.v)))
    \o (IF ~Falsy(a.projectId)
        THEN <<"set project of newTodo to project id ">> \o Literal(escapeString(a.projectId.v))
        ELSE When(~Falsy(a.areaId),
                  <<"set area of newTodo to area id ">> \o Literal(escapeString(a.areaId.v))))
    \o <<"return id of newTodo\n", "end tell">>

\* if (value !== undefined) { if (value === null) clear else set "${...}" }
SetOrClear(value, clear, set, literal) ==
    When(value # Undef, IF value = Null THEN <<clear>> ELSE <<set>> \o Literal(literal))

Script_updateTodo(id, u) ==
    <<"tell application Things3\n", "set t to to do id ">> \o Literal(escapeString(id))
    \o When(u.title # Undef, <<"set name of t to ">> \o Literal(escapeString(u.title.v)))
    \o SetOrClear(u.notes, "set notes of t to missing value\n", "set notes of t to ",
                  escapeString(u.notes.v))
    \o SetOrClear(u.whenDate, "set activation date of t to missing value\n",
                  "schedule t for date ", u.whenDate.v)
    \o SetOrClear(u.deadline, "set due date of t to missing value\n",
                  "set due date of t to date ", u.deadline.v)
    \o When(u.tags # Undef, <<"set tag names of t to ">> \o Literal(TagList(u.tags.v)))
    \o (IF u.projectId # Undef
        THEN SetOrClear(u.projectId, "set project and area of t to missing value\n",
                        "set project of t to project id ", escapeString(u.projectId.v))
        ELSE SetOrClear(u.areaId, "set project and area of t to missing value\n",
                        "set area of t to area id ", escapeString(u.areaId.v)))
    \o <<"end tell">>

RECURSIVE Script_bulkUpdateDates_items(_, _, _)
Script_bulkUpdateDates_items(todoIds, whenDate, deadline) ==
    IF Len(todoIds) = 0 THEN <<>>
    ELSE <<"try\n", "set t to to do id ">> \o Literal(escapeString(Head(todoIds)))
         \o SetOrClear(whenDate, "set activation date of t to missing value\n",
                       "schedule t for date ", whenDate.v)
         \o SetOrClear(deadline, "set due date of t to missing value\n",
                       "set due date of t to date ", deadline.v)
         \o <<"set updatedCount to updatedCount + 1\n", "on error\n", "end try\n">>
         \o Script_bulkUpdateDates_items(Tail(todoIds), whenDate, deadline)

Script_bulkUpdateDates(todoIds, whenDate, deadline) ==
    <<"tell application Things3\n", "set updatedCount to 0\n">>
    \o Script_bulkUpdateDates_items(todoIds, whenDate, deadline)
    \o <<"return updatedCount\n", "end tell">>

Script_searchLogbook(a) ==
    <<"tell application Things3\n", "repeat with t in logbookItems\n">>
    \o When(~Falsy(a.searchText),
            <<"if not (name of t contains ">> \o Literal(escapeString(a.searchText.v))
            \o <<" or notes of t contains ">> \o Literal(escapeString(a.searchText.v))
            \o <<") then\n">>)
    \o When(~Falsy(a.fromDate), <<"set fromDateObj to date ">> \o Literal(a.fromDate.v))
    \o When(~Falsy(a.toDate), <<"set toDateObj to date ">> \o Literal(a.toDate.v))
    \o <<"end repeat\n", "return jsonString as text\n", "end tell">>

\* The strings a caller passes: at most MaxChars characters, among them the
\* two the literal syntax reserves
MaxChars == 2
CallerChars == {"a", Quote, Backslash}
CallerStrings == UNION {[1..n -> CallerChars] : n \in 0..MaxChars}

\* An argument record that leaves out every field but those of given
Args(fields, given) ==
    [f \in fields |-> IF f \in DOMAIN given THEN given[f] ELSE Undef]

CreateFields == {"title", "notes", "whenDate", "deadline", "tags", "projectId", "areaId"}
UpdateFields == CreateFields
SearchFields == {"searchText", "fromDate", "toDate"}

\* One argument besides the title (createTodo) or the id (updateTodo)
OneMore(fields, extra) ==
    {Args(fields, [f \in {k} |-> v]) :
        k \in fields \ {"title", "tags"}, v \in {Text(s) : s \in CallerStrings} \cup extra}
    \cup {Args(fields, [f \in {"tags"} |-> Arr(<<s, <<"a">> >>)]) : s \in CallerStrings}

ScriptArgs(template) ==
    CASE template = "createTodo" ->
            {[a EXCEPT !.title = Text(s)] : a \in OneMore(CreateFields, {}), s \in {<<"a">>, <<Quote>>}}
      [] template = "updateTodo" ->
            OneMore(UpdateFields, {Null})
            \cup {Args(UpdateFields, [f \in {"title"} |-> Text(s)]) : s \in CallerStrings}
      [] template = "bulkUpdateDates" ->
            {[ids |-> ids, whenDate |-> w, deadline |-> d] :
                ids \in {<<s>> : s \in CallerStrings} \cup {<< <<"a">>, <<Quote>> >>},
                w \in {Undef, Null, Text(<<"a">>), Text(<<Quote>>)},
                d \in {Undef, Text(<<"a", Backslash>>)}}
      [] OTHER ->
            {Args(SearchFields, [f \in {k} |-> Text(s)]) : k \in SearchFields, s \in CallerStrings}

Templates == {"createTodo", "updateTodo", "bulkUpdateDates", "searchLogbook"}

InitScript ==
    /\ ePc = "idle"
    /\ eOp \in Templates
    /\ eIntent \in ScriptArgs(eOp)
    /\ eToken = Undef
    /\ eDoc = <<>>
    /\ DateOff
    /\ host = <<>> /\ op = "none" /\ pc = "off" /\ params = <<>> /\ trace = <<>>
    /\ result = <<>> /\ pending = <<>> /\ seen = <<>>
    /\ BatchOff
    /\ ChanOff

Generated(script) ==
    /\ eDoc' = script
    /\ ePc' = "done"
    /\ UNCHANGED <<eOp, eIntent, eToken, dateVars, opVars, batchVars, chanVars>>

GenerateCreateTodo ==
    /\ ePc = "idle" /\ eOp = "createTodo"
    /\ Generated(Script_createTodo(eIntent))

GenerateUpdateTodo ==
    /\ ePc = "idle" /\ eOp = "updateTodo"
    /\ Generated(Script_updateTodo(<<"a", Quote>>, eIntent))

GenerateBulkUpdateDates ==
    /\ ePc = "idle" /\ eOp = "bulkUpdateDates"
    /\ Generated(Script_bulkUpdateDates(eIntent.ids, eIntent.whenDate, eIntent.deadline))

GenerateSearchLogbook ==
    /\ ePc = "idle" /\ eOp = "searchLogbook"
    /\ Generated(Script_searchLogbook(eIntent))

NextScript ==
    \/ GenerateCreateTodo
    \/ GenerateUpdateTodo
    \/ GenerateBulkUpdateDates
    \/ GenerateSearchLogbook

SpecScript == InitScript /\ [][NextScript]_vars

RECURSIVE ScanLiterals(_, _, _, _, _)
\* The literals the script language reads in a script: a quote opens and
\* closes a literal, and in a literal a backslash takes the next character as
\* it is.  A literal the script ends in is marked.
ScanLiterals(s, i, inLiteral, cur, acc) ==
    IF i > Len(s) THEN (IF inLiteral THEN Append(acc, Append(cur, "unterminated")) ELSE acc)
    ELSE IF ~inLiteral
         THEN ScanLiterals(s, i + 1, s[i] = Quote, <<>>, acc)
    ELSE IF s[i] = Quote THEN ScanLiterals(s, i + 1, FALSE, <<>>, Append(acc, cur))
    ELSE IF s[i] = Backslash /\ i < Len(s)
         THEN ScanLiterals(s, i + 2, TRUE, Append(cur, s[i + 1]), acc)
    ELSE ScanLiterals(s, i + 1, TRUE, Append(cur, s[i]), acc)

\* The caller strings a template puts in literals, in the order of the script
Given(value) == When(value \notin {Undef, Null}, <<value.v>>)
Truthy(value) == When(~Falsy(value), <<value.v>>)
GivenTags(tags, always) ==
    When(tags # Undef /\ (always \/ Len(tags.v) > 0), <<JoinText(tags.v, <<",">>)>>)

RECURSIVE CallerValues_bulk(_, _, _)
CallerValues_bulk(ids, whenDate, deadline) ==
    IF Len(ids) = 0 THEN <<>>
    ELSE <<Head(ids)>> \o Given(whenDate) \o Given(deadline)
         \o CallerValues_bulk(Tail(ids), whenDate, deadline)

CallerValues(template, a) ==
    CASE template = "createTodo" ->
            <<a.title.v>> \o Truthy(a.notes) \o Truthy(a.whenDate) \o Truthy(a.deadline)
            \o GivenTags(a.tags, FALSE)
            \o (IF ~Falsy(a.projectId) THEN <<a.projectId.v>> ELSE Truthy(a.areaId))
      [] template = "updateTodo" ->
            << <<"a", Quote>> >> \o Given(a.title) \o Given(a.notes) \o Given(a.whenDate)
            \o Given(a.deadline) \o GivenTags(a.tags, TRUE)
            \o (IF a.projectId # Undef THEN Given(a.projectId) ELSE Given(a.areaId))
      [] template = "bulkUpdateDates" -> CallerValues_bulk(a.ids, a.whenDate, a.deadline)
      [] OTHER ->
            Truthy(a.searchText) \o Truthy(a.searchText) \o Truthy(a.fromDate)
            \o Truthy(a.toDate)

\* C22: every caller string a template puts inside a double-quoted literal
\* of the script is escaped first: the literals the script language reads in
\* the generated script are exactly the caller's strings.
C22_LiteralsAreEscaped ==
    ePc = "done" => ScanLiterals(eDoc, 1, FALSE, <<>>, <<>>) = CallerValues(eOp, eIntent)


-----------------------------------------------------------------------------
(* Malformed intents (under SpecAuth)                                       *)

\* An intent that names two targets: a project and an area
ConflictingTargets(intent) ==
    ~Falsy(Get(intent, "projectId")) /\ ~Falsy(Get(intent, "areaId"))

\* C23: a malformed write intent, such as one naming both a project and an
\* area, is rejected before encoding: no URL or document is built for it.
C23_MalformedRejected ==
    (ePc = "done" /\ eOp = "createTodo" /\ ConflictingTargets(eIntent)) => eDoc = <<>>


-----------------------------------------------------------------------------
(* The settle delay of execute (under SpecChannel)                          *)

\* C24: execute returns successfully only when the URL-open process was
\* accepted and the settle delay read from the configuration has fully
\* elapsed; when the process fails, execute throws without waiting the delay.
C24_ReturnsAfterSettleDelay ==
    [][(cChan = "execute" /\ cCall' # cCall) =>
          /\ cCall' = "resolved" =>
                cCall = "delay" /\ cValue.left = 0 /\ Happened("exit") /\ cCode = 0
          /\ cCall' = "rejected" => cCall = "pending"]_vars

\* execute returned after a settle delay of two ticks
C24_ReturnedAfterTwoTicks ==
    cChan = "execute" /\ cCall = "resolved" /\ cEvents = <<"exit", "tick", "tick", "settle">>


-----------------------------------------------------------------------------
(* The filters and the pagination of listTodos (under Spec)                 *)

\* listTodos has returned a list
Listed == pc = "done" /\ op = "listTodos" /\ result.kind = "returned"

\* The to-do of the host with the given id
HostTodo(id) == CHOOSE todo \in {host[i] : i \in 1..Len(host)} : todo.id = id

\* C25: listTodos applies the filters it advertises: when projectId is given,
\* every to-do it returns belongs to that project (likewise areaId and tags).
C25_ProjectFilterApplied ==
    (Listed /\ ~Falsy(Get(params, "projectId"))) =>
        \A i \in 1..Len(result.items) : HostTodo(result.items[i]).project = params.projectId.v

\* The ids of what the script of listTodos selects, in the host's order
Selected ==
    LET all == Select(host, Get(params, "filter"), Get(params, "status"),
                      Get(params, "searchText"))
    IN  [i \in 1..Len(all) |-> all[i].id]

\* C26: with a non-negative offset and limit, listTodos returns at most limit
\* to-dos: the selected ones at positions offset .. offset+limit-1; this
\* holds for limit 0 and offset 0 too.
C26_PageIsOffsetLimit ==
    (Listed /\ Get(params, "offset") # Undef /\ Get(params, "limit") # Undef) =>
        /\ Len(result.items) <= params.limit.v
        /\ result.items = Slice(Selected, params.offset.v, params.offset.v + params.limit.v)


-----------------------------------------------------------------------------
(* The errors that leave a TodosTools operation (under Spec)                *)

\* The errors raised inside the operations: those that are a Things3Error,
\* and the messages of those that are not
RaisedThings3Errors == {e \in EnsureErrors \cup ScriptErrors : e.class = "Things3Error"}
RaisedOtherMessages ==
    {e.message : e \in {x \in ScriptErrors : x.class # "Things3Error"}
                       \cup {ExecuteError(cause) : cause \in ExecCauses}}

\* C27: every error that leaves a TodosTools operation is a Things3Error: a
\* Things3Error raised inside is passed on unchanged, with its type, and any
\* other error is wrapped exactly once as a Things3Error of type UNKNOWN that
\* carries the original error as details.
C27_ErrorsAreThings3Errors ==
    (pc = "done" /\ result.kind = "error") =>
        /\ result.error.class = "Things3Error"
        /\ \/ result.error \in RaisedThings3Errors
           \/ /\ result.error.type = "UNKNOWN"
              /\ result.error.message \in {Message(op), Message("listTodos")}
              /\ result.error.details \in RaisedOtherMessages

\* createTodo passed on the error its search had wrapped
C27_WrappedOnceBySearch ==
    /\ pc = "done" /\ op = "createTodo" /\ result.kind = "error"
    /\ result.error = Things3Error("UNKNOWN", Message("listTodos"), "SyntaxError")


-----------------------------------------------------------------------------
(* Failures inside createTodo (under Spec)                                  *)

\* C28: when the create activation fails (the URL-open process is not
\* accepted, so the host is handed no command), createTodo ends in an error:
\* no search runs afterwards and no success outcome is returned; when a
\* search call fails, createTodo ends in an error too and does not return
\* the 'unknown' sentinel.
C28_CreateFailureIsError ==
    [][Creating =>
          /\ (pc = "open" /\ pc' # "open" /\ pending' = pending) =>
                (pc' = "done" /\ result'.kind = "error")
          /\ (pc \in {"narrow", "fallback"} /\ trace' # trace /\ seen' = seen) =>
                (pc' = "done" /\ result'.kind = "error")
          /\ pc = "done" => UNCHANGED <<pc, result, trace, seen>>]_vars

\* createTodo ended in the error of its activation, with no search run
C28_FailedAtActivation ==
    Creating /\ ChannelFailed /\ trace = <<"open">> /\ seen = NotSeen


-----------------------------------------------------------------------------
(* SpecResource: the handler of a resource read.  A URI is a sequence of    *)
(* tokens: the scheme with its slashes, names, single slashes, id text.     *)

Scheme == "things3://"

FilterNames == {"inbox", "today", "upcoming", "anytime", "someday", "logbook"}

\* STATIC_RESOURCES
STATIC_RESOURCES == {<<Scheme, name>> : name \in FilterNames \cup {"projects", "areas", "tags"}}

\* What every object inherits from Object.prototype
PrototypeKeys == {<<"constructor">>, <<"toString">>}

\* FILTER_MAP[uri]: the filter of a key of the map, what the object inherits
\* for an inherited key, undefined for anything else
FILTER_MAP(uri) ==
    IF Len(uri) = 2 /\ uri[1] = Scheme /\ uri[2] \in FilterNames THEN Str(uri[2])
    ELSE IF uri \in PrototypeKeys THEN [t |-> "function", v |-> uri[1]]
    ELSE Undef

RECURSIVE Concat(_)
Concat(tokens) == IF Len(tokens) = 0 THEN "" ELSE Head(tokens) \o Concat(Tail(tokens))

\* uri.match(/^things3:\/\/<name>\/(.+)$/)?.[1]: the text after the slash,
\* undefined when there is no match; the dot takes no line break
TemplateMatch(uri, name) ==
    IF /\ Len(uri) > 3
       /\ SubSeq(uri, 1, 3) = <<Scheme, name, "/">>
       /\ \A i \in 4..Len(uri) : uri[i] # "\n"
    THEN Str(Concat(SubSeq(uri, 4, Len(uri))))
    ELSE Undef

\* The URIs a client asks for
Uris ==
    STATIC_RESOURCES \cup PrototypeKeys
    \cup {<<Scheme, "todos", "/", "1">>, <<Scheme, "todos", "/", "none">>,
          <<Scheme, "todos", "/">>, <<Scheme, "todos">>,
          <<Scheme, "todos", "/", "1", "\n", "2">>,
          <<Scheme, "projects", "/", "P">>, <<Scheme, "projects", "/">>,
          <<Scheme, "unknown">>, <<Scheme, "inbox", "/">>, <<>>}

InitResource ==
    /\ host \in Hosts
    /\ op = "readResource"
    /\ pc = "request"
    /\ params \in {[uri |-> uri] : uri \in Uris}
    /\ trace = <<>>
    /\ result = NoResult
    /\ pending = <<>>
    /\ seen = NotSeen
    /\ DateOff
    /\ EncOff
    /\ BatchOff
    /\ ChanOff

\* The handler returns the content, or throws what readResource threw with
\* the message wrapped
Content(route, items) ==
    /\ trace' = <<route>>
    /\ result' = Returned(TRUE, route, Len(items), items)
    /\ pc' = "done"
    /\ UNCHANGED <<host, op, params, pending, seen, dateVars, encVars, batchVars, chanVars>>

Failed(route, message) ==
    /\ trace' = <<route>>
    /\ result' = Thrown(PlainError("Failed to read resource: " \o message))
    /\ pc' = "done"
    /\ UNCHANGED <<host, op, params, pending, seen, dateVars, encVars, batchVars, chanVars>>

\* What a tool may throw
ToolErrors == {Caught(e, "Failed") : e \in EnsureErrors \cup ScriptErrors}

\* const filter = FILTER_MAP[uri]; if (filter) listTodos({ filter })
ReadList ==
    /\ pc = "request"
    /\ ~Falsy(FILTER_MAP(params.uri))
    /\ \/ Content("listTodos", Tools_listTodos(host, [filter |-> FILTER_MAP(params.uri)]))
       \/ \E e \in ToolErrors : Failed("listTodos", e.message)

\* things3://projects, things3://areas, things3://tags: the listing of
\* another tool
ReadOtherList ==
    /\ pc = "request"
    /\ Falsy(FILTER_MAP(params.uri))
    /\ params.uri \in {<<Scheme, "projects">>, <<Scheme, "areas">>, <<Scheme, "tags">>}
    /\ \/ \E items \in {<<>>, <<"x">>} : Content(params.uri[2], items)
       \/ \E e \in ToolErrors : Failed(params.uri[2], e.message)

Unrouted(uri) ==
    /\ Falsy(FILTER_MAP(uri))
    /\ uri \notin {<<Scheme, "projects">>, <<Scheme, "areas">>, <<Scheme, "tags">>}

\* things3://todos/{id}: getTodo, and an error for null
ReadTodo ==
    /\ pc = "request"
    /\ Unrouted(params.uri)
    /\ ~Falsy(TemplateMatch(params.uri, "todos"))
    /\ \/ IF TemplateMatch(params.uri, "todos").v \in Ids(host)
          THEN Content("getTodo", <<TemplateMatch(params.uri, "todos").v>>)
          ELSE Failed("getTodo", "TODO not found")
       \/ \E e \in ToolErrors : Failed("getTodo", e.message)

\* things3://projects/{id}: getProject of another tool
ReadProject ==
    /\ pc = "request"
    /\ Unrouted(params.uri)
    /\ Falsy(TemplateMatch(params.uri, "todos"))
    /\ ~Falsy(TemplateMatch(params.uri, "projects"))
    /\ \/ Content("getProject", <<TemplateMatch(params.uri, "projects").v>>)
       \/ \E e \in ToolErrors : Failed("getProject", e.message)

\* throw new Error(`Unknown resource URI: ${uri}`)
ReadUnknown ==
    /\ pc = "request"
    /\ Unrouted(params.uri)
    /\ Falsy(TemplateMatch(params.uri, "todos"))
    /\ Falsy(TemplateMatch(params.uri, "projects"))
    /\ Failed("none", "Unknown resource URI")

NextResource ==
    \/ ReadList
    \/ ReadOtherList
    \/ ReadTodo
    \/ ReadProject
    \/ ReadUnknown

SpecResource == InitResource /\ [][NextResource]_vars

\* The URI is a todos/{id} or projects/{id} template with a non-empty id
IsTemplateUri(uri) ==
    Len(uri) > 3 /\ uri[1] = Scheme /\ uri[2] \in {"todos", "projects"} /\ uri[3] = "/"

\* C29: every static resource URI is routed to a listing operation and never
\* ends in 'Unknown resource URI'; a URI that is neither a static resource
\* nor a todos/{id} or projects/{id} template with a non-empty id is rejected
\* with an error; reading todos/{id} for an id the host does not know raises
\* 'TODO not found'.
C29_ResourceRouting ==
    pc = "done" =>
        /\ params.uri \in STATIC_RESOURCES =>
              trace[1] \in {"listTodos", "projects", "areas", "tags"}
        /\ (params.uri \notin STATIC_RESOURCES /\ ~IsTemplateUri(params.uri)) =>
              result.kind = "error"
        /\ (Len(params.uri) = 4 /\ SubSeq(params.uri, 1, 3) = <<Scheme, "todos", "/">>
            /\ params.uri[4] \notin Ids(host)) => result.kind = "error"


-----------------------------------------------------------------------------
(* The events of queryDatabase (under SpecChannel)                          *)

\* The outcome the event that has just happened gives a pending call
FirstOutcome(event) ==
    CASE event = "timeout" ->
            /\ cCall' = "rejected"
            /\ cValue' = [error |-> "SQLite query timed out after 10s"]
            /\ cProc' = "killed"
      [] event = "error" ->
            cCall' = "rejected" /\ cValue' = [error |-> "Failed to spawn sqlite3"]
      [] OTHER ->
            IF cCode = 0
            THEN cCall' = "resolved" /\ cValue' = [value |-> JsTrim(cStdout)]
            ELSE cCall' = "rejected" /\ cValue' = [error |-> "sqlite3 exited with code"]

\* C30: under every interleaving of 'timer fires', 'process closes' and
\* 'spawn error', a queryDatabase call settles once, with the outcome of the
\* first event: a timeout kills the process and rejects with the timeout
\* error even if a close follows; a close or error cancels the timer, which
\* then fires and kills no more; a close with code 0 resolves with the
\* trimmed output and any other code rejects.
C30_FirstEventSettles ==
    [][cChan = "queryDatabase" =>
          /\ cCall # "pending" => UNCHANGED <<cCall, cValue>>
          /\ (cCall = "pending" /\ cEvents' # cEvents) =>
                FirstOutcome(cEvents'[Len(cEvents')])
          /\ cTimer = "cleared" => (cTimer' = "cleared" /\ cProc' # "killed")]_vars

\* The timer fired first and the close of the killed process followed
C30_CloseAfterTimeout ==
    /\ cChan = "queryDatabase"
    /\ cEvents = <<"timeout", "close">>
    /\ cCall = "rejected"
    /\ cValue = [error |-> "SQLite query timed out after 10s"]

=============================================================================
